---- MODULE Spec2Model ----
(***************************************************************************)
(* dbdm - dotfile link manager.                                            *)
(*                                                                         *)
(* A model of the `sync` command of src/main.rs (classification, conflict  *)
(* resolution, confirmation, execution) and of the link mutation           *)
(* primitives exported by src/lib.rs, over an explicit model of a POSIX    *)
(* file system (directories, regular files, symbolic links, path           *)
(* resolution).                                                            *)
(***************************************************************************)
EXTENDS Integers, Sequences, FiniteSets, TLC

VARIABLES
    fs,               \* the file system: absolute path (sequence of names) -> node
    fs0,              \* the file system as it was before the run started
    links,            \* config.links: the declared links, in config order
    force,            \* sync: the --force flag
    pc,               \* the position of the running command
    cursor,           \* index of the loop the command is in (link, pending item, plan item)
    plan,             \* sync: Vec<PlanItem>
    pending_indices,  \* sync: Vec<usize>
    executed,         \* sync: the outcome, Vec<PlanItem>
    errors,           \* sync: Vec<String>, kept as [to, err] records
    stdin_eof,        \* standard input has reached its end
    answer,           \* the line the prompt in progress read last and what it was taken as
    events,           \* history: prompts answered, confirmation, mutations, in order
    last,             \* the last primitive call: its arguments, result and paths
    stdout            \* the lines print_plan has written, in order

vars == << fs, fs0, links, force, pc, cursor, plan, pending_indices, executed,
           errors, stdin_eof, answer, events, last, stdout >>

(***************************************************************************)
(* Bounds of the model.                                                    *)
(***************************************************************************)
MaxLinks == 2        \* longest config.links explored
MaxSymlinkHops == 4  \* symbolic links followed in one resolution before ELOOP

(***************************************************************************)
(* Paths (std::path::Path).  A path is absolute or relative and is a       *)
(* sequence of components; "." and ".." are components like any name.      *)
(***************************************************************************)
Abs(segs) == [abs |-> TRUE, segs |-> segs]
Rel(segs) == [abs |-> FALSE, segs |-> segs]
NoPath == Rel(<<>>)

Cwd == <<"s">>       \* the working directory of the process: where dbdm.conf is

Last(s) == s[Len(s)]
Front(s) == SubSeq(s, 1, Len(s) - 1)
IsPrefix(s, t) == Len(s) <= Len(t) /\ SubSeq(t, 1, Len(s)) = s

is_relative(p) == ~p.abs

\* Path::parent: None for the root and for the empty path.
has_parent(p) == p.segs # <<>>
parent(p) == [abs |-> p.abs, segs |-> Front(p.segs)]

\* Path::file_name: None when the path ends in ".." or has no component.
has_file_name(p) == p.segs # <<>> /\ Last(p.segs) \notin {"..", "."}
file_name(p) == Last(p.segs)

\* Path::join: an absolute argument replaces the receiver.
join(p, q) == IF q.abs THEN q ELSE [abs |-> p.abs, segs |-> p.segs \o q.segs]
join_name(p, name) == [abs |-> p.abs, segs |-> Append(p.segs, name)]

(***************************************************************************)
(* File system nodes.                                                      *)
(***************************************************************************)
DirNode == [kind |-> "dir", content |-> "", target |-> NoPath]
FileNode(c) == [kind |-> "file", content |-> c, target |-> NoPath]
LinkNode(t) == [kind |-> "symlink", content |-> "", target |-> t]

(***************************************************************************)
(* Path resolution (namei).  Walk follows the components of `rest` from    *)
(* the directory `cur`; symbolic links met on the way are followed, the    *)
(* one named by the last component only when `follow` is set.  The result  *)
(* names the node found (ok), or the place where the last component is     *)
(* missing in an existing directory (free), or neither (an error).         *)
(***************************************************************************)
Found(p) == [ok |-> TRUE, free |-> FALSE, path |-> p, err |-> ""]
Free(p) == [ok |-> FALSE, free |-> TRUE, path |-> p, err |-> "NotFound"]
Fail(e) == [ok |-> FALSE, free |-> FALSE, path |-> <<>>, err |-> e]

RECURSIVE Walk(_, _, _, _, _)
Walk(f, cur, rest, hops, follow) ==
    IF rest = <<>> THEN Found(cur)
    ELSE LET c == Head(rest)
             r == Tail(rest)
             p == Append(cur, c)
         IN  IF c = "." THEN Walk(f, cur, r, hops, follow)
             ELSE IF c = ".."
                  THEN Walk(f, IF cur = <<>> THEN cur ELSE Front(cur), r, hops, follow)
             ELSE IF p \notin DOMAIN f
                  THEN IF r = <<>> THEN Free(p) ELSE Fail("NotFound")
             ELSE IF f[p].kind = "symlink"
                  THEN IF r = <<>> /\ ~follow THEN Found(p)
                       ELSE IF hops = 0 THEN Fail("FilesystemLoop")
                       ELSE Walk(f, IF f[p].target.abs THEN <<>> ELSE cur,
                                 f[p].target.segs \o r, hops - 1, follow)
             ELSE IF f[p].kind = "file"
                  THEN IF r = <<>> THEN Found(p) ELSE Fail("NotADirectory")
             ELSE Walk(f, p, r, hops, follow)

Start(p) == IF p.abs THEN <<>> ELSE Cwd

\* stat(2) and lstat(2); the empty path names nothing.
Stat(f, p) ==
    IF p.segs = <<>> /\ ~p.abs THEN Fail("NotFound")
    ELSE Walk(f, Start(p), p.segs, MaxSymlinkHops, TRUE)
LStat(f, p) ==
    IF p.segs = <<>> /\ ~p.abs THEN Fail("NotFound")
    ELSE Walk(f, Start(p), p.segs, MaxSymlinkHops, FALSE)

\* std::fs::metadata / symlink_metadata / Path::exists / read_link / canonicalize
metadata_ok(f, p) == Stat(f, p).ok
metadata_is_dir(f, p) == Stat(f, p).ok /\ f[Stat(f, p).path].kind = "dir"
symlink_metadata_ok(f, p) == LStat(f, p).ok
lkind(f, p) == IF LStat(f, p).ok THEN f[LStat(f, p).path].kind ELSE "none"
exists(f, p) == Stat(f, p).ok
read_link(f, p) == f[LStat(f, p).path].target
canonicalize_ok(f, p) == Stat(f, p).ok
canonicalize(f, p) == Abs(Stat(f, p).path)

(***************************************************************************)
(* File system mutations.  Each returns [ok, fs, err]: on an error the     *)
(* file system is returned as it was left.                                 *)
(***************************************************************************)
Ok(f) == [ok |-> TRUE, fs |-> f, err |-> ""]
Err(f, e) == [ok |-> FALSE, fs |-> f, err |-> e]

\* the node at q and everything beneath it
Subtree(f, q) == {x \in DOMAIN f : IsPrefix(q, x)}
Without(f, q) == [x \in (DOMAIN f) \ Subtree(f, q) |-> f[x]]

\* std::fs::remove_file: unlink(2), the last component is not followed.
remove_file(f, p) ==
    LET l == LStat(f, p)
    IN  IF ~l.ok THEN Err(f, l.err)
        ELSE IF f[l.path].kind = "dir" THEN Err(f, "IsADirectory")
        ELSE Ok(Without(f, l.path))

\* std::fs::remove_dir_all: a symbolic link is unlinked, a directory is
\* removed with everything beneath it.
remove_dir_all(f, p) ==
    LET l == LStat(f, p)
    IN  IF ~l.ok THEN Err(f, l.err)
        ELSE IF f[l.path].kind = "file" THEN Err(f, "NotADirectory")
        ELSE IF l.path = <<>> THEN Err(f, "PermissionDenied")
        ELSE Ok(Without(f, l.path))

\* std::fs::rename: rename(2).  Neither last component is followed; an
\* existing target is replaced when the kinds allow it.
rename(f, a, b) ==
    LET la == LStat(f, a)
        lb == LStat(f, b)
        src == la.path
        dst == lb.path
        moved == [x \in ((DOMAIN f) \ (Subtree(f, src) \cup Subtree(f, dst)))
                          \cup {dst \o SubSeq(y, Len(src) + 1, Len(y)) : y \in Subtree(f, src)}
                  |-> IF IsPrefix(dst, x)
                      THEN f[src \o SubSeq(x, Len(dst) + 1, Len(x))]
                      ELSE f[x]]
    IN  IF ~la.ok THEN Err(f, la.err)
        ELSE IF ~lb.ok /\ ~lb.free THEN Err(f, lb.err)
        ELSE IF src = dst THEN Ok(f)
        ELSE IF f[src].kind = "dir" /\ IsPrefix(src, dst) THEN Err(f, "InvalidInput")
        ELSE IF f[src].kind = "dir" /\ lb.ok /\ f[dst].kind # "dir"
             THEN Err(f, "NotADirectory")
        ELSE IF f[src].kind = "dir" /\ lb.ok /\ Subtree(f, dst) # {dst}
             THEN Err(f, "DirectoryNotEmpty")
        ELSE IF f[src].kind # "dir" /\ lb.ok /\ f[dst].kind = "dir"
             THEN Err(f, "IsADirectory")
        ELSE Ok(moved)

\* std::os::unix::fs::symlink(original, link): symlink(2).  The target is
\* stored as given; the call fails when anything is at `link` already.
symlink(f, original, link) ==
    LET l == LStat(f, link)
    IN  IF l.ok THEN Err(f, "AlreadyExists")
        ELSE IF ~l.free THEN Err(f, l.err)
        ELSE Ok(f @@ (l.path :> LinkNode(original)))

\* mkdir(2)
mkdir(f, p) ==
    LET l == LStat(f, p)
    IN  IF l.ok THEN Err(f, "AlreadyExists")
        ELSE IF ~l.free THEN Err(f, l.err)
        ELSE Ok(f @@ (l.path :> DirNode))

\* std::fs::create_dir_all
RECURSIVE create_dir_all(_, _)
create_dir_all(f, p) ==
    IF p = NoPath THEN Ok(f)
    ELSE LET first == mkdir(f, p)
         IN  IF first.ok THEN first
             ELSE IF first.err # "NotFound"
                  THEN IF metadata_is_dir(f, p) THEN Ok(f) ELSE first
             ELSE IF ~has_parent(p) THEN Err(f, "NotFound")
             ELSE LET up == create_dir_all(f, parent(p))
                  IN  IF ~up.ok THEN up
                      ELSE LET again == mkdir(up.fs, p)
                           IN  IF again.ok THEN again
                               ELSE IF metadata_is_dir(up.fs, p) THEN Ok(up.fs)
                               ELSE Err(up.fs, again.err)

(***************************************************************************)
(* src/lib.rs: the link mutation primitives.  A primitive returns          *)
(* [ok, fs, err, dest, backup]: the file system it leaves, the path it     *)
(* resolved as the place of the link and the backup path it chose (NoPath  *)
(* when it did not get that far).                                          *)
(***************************************************************************)
Done(r, dest, backup) ==
    [ok |-> r.ok, fs |-> r.fs, err |-> r.err, dest |-> dest, backup |-> backup]

canonicalize_or_fallback(f, path) ==
    IF canonicalize_ok(f, path) THEN canonicalize(f, path) ELSE path

\* mutant: a relative target is taken as it is read, relative to the working
\* directory
resolve_symlink_target_unjoined(link_path, target) == target

\* mutant: the target is joined to the link itself, not to its parent
resolve_symlink_target_onto_link(link_path, target) ==
    IF is_relative(target) THEN join(link_path, target) ELSE target

resolve_symlink_target(link_path, target) ==
    IF is_relative(target)
    THEN join(IF has_parent(link_path) THEN parent(link_path) ELSE Rel(<<".">>), target)
    ELSE target

\* [ok, dest, err]
resolve_link_destination(f, from, to) ==
    LET from_meta == Stat(f, from)
        to_kind == lkind(f, to)
    IN  IF ~from_meta.ok THEN [ok |-> FALSE, dest |-> NoPath, err |-> from_meta.err]
        ELSE IF f[from_meta.path].kind = "dir"
             THEN IF to_kind = "file"
                  THEN [ok |-> FALSE, dest |-> NoPath, err |-> "InvalidInput"]
                  ELSE [ok |-> TRUE, dest |-> to, err |-> ""]
        ELSE IF to_kind = "dir"
             THEN IF has_file_name(from)
                  THEN [ok |-> TRUE, dest |-> join_name(to, file_name(from)), err |-> ""]
                  ELSE [ok |-> FALSE, dest |-> NoPath, err |-> "InvalidInput"]
        ELSE [ok |-> TRUE, dest |-> to, err |-> ""]

RECURSIVE unique_backup_loop(_, _, _, _, _)
unique_backup_loop(f, dir, base, path, counter) ==
    IF exists(f, path)
    THEN unique_backup_loop(f, dir, base,
                            join_name(dir, base \o "." \o ToString(counter)), counter + 1)
    ELSE path

unique_backup_path(f, dir, name) ==
    unique_backup_loop(f, dir, name \o ".bak.dbdm", join_name(dir, name \o ".bak.dbdm"), 1)

remove_existing(f, path) ==
    LET meta == LStat(f, path)
    IN  IF ~meta.ok
        THEN IF meta.err = "NotFound" THEN Ok(f) ELSE Err(f, meta.err)
        ELSE IF f[meta.path].kind \in {"symlink", "file"}
             THEN remove_file(f, path)
             ELSE remove_dir_all(f, path)

replace_link(f, from, to) ==
    LET res == resolve_link_destination(f, from, to)
        removed == remove_existing(f, res.dest)
    IN  IF ~res.ok THEN Done(Err(f, res.err), NoPath, NoPath)
        ELSE IF ~removed.ok THEN Done(removed, res.dest, NoPath)
        ELSE Done(symlink(removed.fs, from, res.dest), res.dest, NoPath)

\* the directory a backup is placed in
backup_dir_of(f, from) ==
    IF metadata_is_dir(f, from) THEN from
    ELSE IF has_parent(from) THEN parent(from) ELSE from

\* mutant: the destination is removed where it should be moved aside
backup_and_replace_discarding(f, from, to) ==
    LET res == resolve_link_destination(f, from, to)
        dest == res.dest
        backup_dir == backup_dir_of(f, from)
        made == create_dir_all(f, backup_dir)
        base_name == IF has_file_name(dest) THEN file_name(dest) ELSE "backup"
        backup_path == unique_backup_path(made.fs, backup_dir, base_name)
        removed == remove_existing(made.fs, dest)
    IN  IF ~res.ok THEN Done(Err(f, res.err), NoPath, NoPath)
        ELSE IF ~made.ok THEN Done(made, dest, NoPath)
        ELSE IF ~removed.ok THEN Done(removed, dest, backup_path)
        ELSE Done(symlink(removed.fs, from, dest), dest, backup_path)

backup_and_replace(f, from, to) ==
    LET res == resolve_link_destination(f, from, to)
        dest == res.dest
        backup_dir == backup_dir_of(f, from)
        made == create_dir_all(f, backup_dir)
        base_name == IF has_file_name(dest) THEN file_name(dest) ELSE "backup"
        backup_path == unique_backup_path(made.fs, backup_dir, base_name)
        renamed == rename(made.fs, dest, backup_path)
    IN  IF ~res.ok THEN Done(Err(f, res.err), NoPath, NoPath)
        ELSE IF ~made.ok THEN Done(made, dest, NoPath)
        ELSE IF ~renamed.ok THEN Done(renamed, dest, backup_path)
        ELSE Done(symlink(renamed.fs, from, dest), dest, backup_path)

(***************************************************************************)
(* src/main.rs: the primitives the sync command calls.  They are private   *)
(* copies of the ones above that work on `to` itself.                      *)
(***************************************************************************)
main_remove_existing(f, path) ==
    LET meta == LStat(f, path)
    IN  IF ~meta.ok THEN Err(f, meta.err)
        ELSE IF f[meta.path].kind \in {"symlink", "file"}
             THEN remove_file(f, path)
             ELSE remove_dir_all(f, path)

\* mutant: the destination is made canonical first, so that a symlink at
\* <to> is followed
main_replace_link_canonical(f, from, to) ==
    LET dest == canonicalize_or_fallback(f, to)
        removed == main_remove_existing(f, dest)
    IN  IF ~removed.ok THEN Done(removed, to, NoPath)
        ELSE Done(symlink(removed.fs, from, dest), to, NoPath)

main_replace_link(f, from, to) ==
    LET removed == main_remove_existing(f, to)
    IN  IF ~removed.ok THEN Done(removed, to, NoPath)
        ELSE Done(symlink(removed.fs, from, to), to, NoPath)

\* mutant: the arguments of the final symlink call change places
main_backup_and_replace_link_swapped(f, from, to) ==
    LET backup_dir == backup_dir_of(f, from)
        made == create_dir_all(f, backup_dir)
        base_name == IF has_file_name(to) THEN file_name(to) ELSE "backup"
        backup_path == unique_backup_path(made.fs, backup_dir, base_name)
        renamed == rename(made.fs, to, backup_path)
    IN  IF ~made.ok THEN Done(made, to, NoPath)
        ELSE IF ~renamed.ok THEN Done(renamed, to, backup_path)
        ELSE Done(symlink(renamed.fs, to, from), to, backup_path)

main_backup_and_replace(f, from, to) ==
    LET backup_dir == backup_dir_of(f, from)
        made == create_dir_all(f, backup_dir)
        base_name == IF has_file_name(to) THEN file_name(to) ELSE "backup"
        backup_path == unique_backup_path(made.fs, backup_dir, base_name)
        renamed == rename(made.fs, to, backup_path)
    IN  IF ~made.ok THEN Done(made, to, NoPath)
        ELSE IF ~renamed.ok THEN Done(renamed, to, backup_path)
        ELSE Done(symlink(renamed.fs, from, to), to, backup_path)

(***************************************************************************)
(* Standard input.  A line is what read_line returns: the characters up to *)
(* and including the newline, nothing at end of file, or a read error.     *)
(***************************************************************************)
NL == "\n"
Line(chars) == [err |-> FALSE, text |-> chars]
ReadError == [err |-> TRUE, text |-> <<>>]
EndOfFile == Line(<<>>)

NoAnswer == [to |-> "none", line |-> EndOfFile, as |-> ""]

InputLines ==
    { Line(<<"r", NL>>),
      Line(<<" ", "B", "a", "c", "k", "u", "p", " ", NL>>),
      Line(<<"S">>),
      Line(<<"y", NL>>), Line(<<"Y", "E", "S", NL>>),
      Line(<<"n", NL>>), Line(<<NL>>),
      ReadError }

Upper == <<"A", "B", "C", "E", "I", "K", "L", "N", "P", "R", "S", "U", "Y">>
Lower == <<"a", "b", "c", "e", "i", "k", "l", "n", "p", "r", "s", "u", "y">>
Whitespace == {" ", NL, "\t", "\r"}

\* str::to_lowercase, character by character
lower_char(c) ==
    IF \E k \in 1..Len(Upper) : Upper[k] = c
    THEN Lower[CHOOSE k \in 1..Len(Upper) : Upper[k] = c]
    ELSE c
to_lowercase(t) == [k \in 1..Len(t) |-> lower_char(t[k])]

\* str::trim: leading and trailing whitespace removed
RECURSIVE trim_start(_)
trim_start(t) ==
    IF t # <<>> /\ Head(t) \in Whitespace THEN trim_start(Tail(t)) ELSE t
RECURSIVE trim_end(_)
trim_end(t) ==
    IF t # <<>> /\ Last(t) \in Whitespace THEN trim_end(Front(t)) ELSE t
trim(t) == trim_end(trim_start(t))

\* mutant: the "backup" arm returns what the "replace" arm returns
prompt_action_backup_as_replace(line) ==
    LET choice == to_lowercase(trim(line.text))
    IN  IF line.err THEN ""
        ELSE IF choice \in {<<"r">>, <<"r", "e", "p", "l", "a", "c", "e">>} THEN "Replace"
        ELSE IF choice \in {<<"b">>, <<"b", "a", "c", "k", "u", "p">>} THEN "Replace"
        ELSE IF choice \in {<<"s">>, <<"s", "k", "i", "p">>} THEN "Skip"
        ELSE ""

\* mutant: the "skip" arm returns Ignore
prompt_action_skip_as_ignore(line) ==
    LET choice == to_lowercase(trim(line.text))
    IN  IF line.err THEN ""
        ELSE IF choice \in {<<"r">>, <<"r", "e", "p", "l", "a", "c", "e">>} THEN "Replace"
        ELSE IF choice \in {<<"b">>, <<"b", "a", "c", "k", "u", "p">>} THEN "BackupReplace"
        ELSE IF choice \in {<<"s">>, <<"s", "k", "i", "p">>} THEN "Ignore"
        ELSE ""

\* mutant: the line is not trimmed
prompt_action_untrimmed(line) ==
    LET choice == to_lowercase(line.text)
    IN  IF line.err THEN ""
        ELSE IF choice \in {<<"r">>, <<"r", "e", "p", "l", "a", "c", "e">>} THEN "Replace"
        ELSE IF choice \in {<<"b">>, <<"b", "a", "c", "k", "u", "p">>} THEN "BackupReplace"
        ELSE IF choice \in {<<"s">>, <<"s", "k", "i", "p">>} THEN "Skip"
        ELSE ""

\* prompt_action, one turn of its loop: the action chosen, or "" when the
\* line is rejected (or unreadable) and the prompt repeats
prompt_action(line) ==
    LET choice == to_lowercase(trim(line.text))
    IN  IF line.err THEN ""
        ELSE IF choice \in {<<"r">>, <<"r", "e", "p", "l", "a", "c", "e">>} THEN "Replace"
        ELSE IF choice \in {<<"b">>, <<"b", "a", "c", "k", "u", "p">>} THEN "BackupReplace"
        ELSE IF choice \in {<<"s">>, <<"s", "k", "i", "p">>} THEN "Skip"
        ELSE ""

\* mutant: [Y/n] for [y/N] - anything but "n"/"no" proceeds
confirm_proceed_unless_no(line) ==
    /\ ~line.err
    /\ to_lowercase(trim(line.text)) \notin {<<"n">>, <<"n", "o">>}

confirm_proceed(line) ==
    /\ ~line.err
    /\ to_lowercase(trim(line.text)) \in {<<"y">>, <<"y", "e", "s">>}

\* what a read can return: any line, or nothing once the input has ended,
\* which it can do at any read and then stays so
Readable(eof) == IF eof THEN {EndOfFile} ELSE InputLines \cup {EndOfFile}

(***************************************************************************)
(* The sync command (src/main.rs, fn sync).                                *)
(***************************************************************************)
None == <<>>
Some(x) == <<x>>
\* mutant: the two paths of the link change places
PlanItem_swapped(from, to, action, reason) ==
    [from |-> to, to |-> from, action |-> action, reason |-> reason]

PlanItem(from, to, action, reason) ==
    [from |-> from, to |-> to, action |-> action, reason |-> reason]

\* mutant: any symlink at the destination counts as linked
IsLinked_any_symlink(f, from, to) == lkind(f, to) = "symlink"

\* the destination is a symlink whose resolved target is the declared source
IsLinked(f, from, to) ==
    /\ lkind(f, to) = "symlink"
    /\ canonicalize_or_fallback(f, resolve_symlink_target(to, read_link(f, to)))
         = canonicalize_or_fallback(f, from)

\* mutant: a symlink that points elsewhere is planned but not queued for a prompt
classify_symlink_not_queued(f, link, forced) ==
    IF symlink_metadata_ok(f, link.to)
    THEN IF IsLinked(f, link.from, link.to)
         THEN [item |-> PlanItem(link.from, link.to, "Ignore", None), pending |-> FALSE]
         ELSE [item |-> PlanItem(link.from, link.to,
                                 IF forced THEN "Replace" ELSE "Pending", None),
               pending |-> ~forced /\ lkind(f, link.to) # "symlink"]
    ELSE [item |-> PlanItem(link.from, link.to, "Skip", Some("path does not exist")),
          pending |-> FALSE]

\* the body of the classification loop for one link: the PlanItem it pushes
\* and whether it pushes the item's index to pending_indices
classify(f, link, forced) ==
    IF symlink_metadata_ok(f, link.to)
    THEN IF IsLinked(f, link.from, link.to)
         THEN [item |-> PlanItem(link.from, link.to, "Ignore", None), pending |-> FALSE]
         ELSE [item |-> PlanItem(link.from, link.to,
                                 IF forced THEN "Replace" ELSE "Pending", None),
               pending |-> ~forced]
    ELSE [item |-> PlanItem(link.from, link.to, "Skip", Some("path does not exist")),
          pending |-> FALSE]

\* what print_plan writes, line by line: the title, the label of a section,
\* or an item of a section ("- <to>", followed by " (<reason>)" if it has one)
TitleLine(title) == [kind |-> "title", label |-> title, to |-> NoPath, reason |-> None]
SectionLine(label) == [kind |-> "section", label |-> label, to |-> NoPath, reason |-> None]
ItemLine(item) ==
    [kind |-> "item", label |-> "", to |-> item.to, reason |-> item.reason]

\* mutant: the label is written before the section is found to be empty
print_plan_section_always_headed(label, items, action) ==
    LET shown == SelectSeq(items, LAMBDA item : item.action = action)
    IN  <<SectionLine(label)>> \o [k \in 1..Len(shown) |-> ItemLine(shown[k])]

print_plan_section(label, items, action) ==
    LET shown == SelectSeq(items, LAMBDA item : item.action = action)
    IN  IF shown = <<>> THEN <<>>
        ELSE <<SectionLine(label)>> \o [k \in 1..Len(shown) |-> ItemLine(shown[k])]

print_plan(title, items) ==
    <<TitleLine(title)>>
    \o print_plan_section("ignored", items, "Ignore")
    \o print_plan_section("skipped", items, "Skip")
    \o print_plan_section("replaced", items, "Replace")
    \o print_plan_section("backup+replaced", items, "BackupReplace")

NoCall == [op |-> "none", from |-> NoPath, to |-> NoPath, ok |-> TRUE, err |-> "",
           dest |-> NoPath, backup |-> NoPath, pre |-> <<>>]
Call(op, from, to, r, pre) ==
    [op |-> op, from |-> from, to |-> to, ok |-> r.ok, err |-> r.err,
     dest |-> r.dest, backup |-> r.backup, pre |-> pre]

\* for link in &config.links { ... }: one link is classified
ClassifyLink ==
    /\ pc = "classify"
    /\ LET c == classify(fs, links[cursor], force)
           idx == Len(plan) + 1
           pend == IF c.pending THEN Append(pending_indices, idx) ELSE pending_indices
       IN  /\ plan' = Append(plan, c.item)
           /\ pending_indices' = pend
           /\ IF cursor < Len(links)
              THEN /\ cursor' = cursor + 1
                   /\ pc' = "classify"
              ELSE /\ cursor' = 1
                   /\ pc' = IF pend = <<>> THEN "confirm" ELSE "resolve"
    /\ UNCHANGED << fs, fs0, links, force, executed, errors, stdin_eof, answer, events,
                    last, stdout >>

\* mutant: the pending items are taken from the last to the first
ResolvePending_last_first ==
    /\ pc = "resolve"
    /\ \E line \in Readable(stdin_eof) :
         LET action == prompt_action(line)
             idx == pending_indices[Len(pending_indices) + 1 - cursor]
         IN  /\ stdin_eof' = (line = EndOfFile)
             /\ answer' = [to |-> "choice", line |-> line, as |-> action]
             /\ IF action = ""
                THEN UNCHANGED << plan, cursor, pc, events >>
                ELSE /\ plan' = [plan EXCEPT ![idx].action = action]
                     /\ events' = Append(events, [e |-> "choice", idx |-> idx, action |-> action])
                     /\ IF cursor < Len(pending_indices)
                        THEN cursor' = cursor + 1 /\ pc' = "resolve"
                        ELSE cursor' = 1 /\ pc' = "confirm"
    /\ UNCHANGED << fs, fs0, links, force, pending_indices, executed, errors, last,
                    stdout >>

\* for idx in pending_indices { ... }: one line is read by prompt_action
ResolveWith(readable) ==
    /\ pc = "resolve"
    /\ \E line \in readable :
         LET action == prompt_action(line)
             idx == pending_indices[cursor]
         IN  /\ stdin_eof' = (line = EndOfFile)
             /\ answer' = [to |-> "choice", line |-> line, as |-> action]
             /\ IF action = ""
                THEN UNCHANGED << plan, cursor, pc, events >>
                ELSE /\ plan' = [plan EXCEPT ![idx].action = action]
                     /\ events' = Append(events, [e |-> "choice", idx |-> idx, action |-> action])
                     /\ IF cursor < Len(pending_indices)
                        THEN cursor' = cursor + 1 /\ pc' = "resolve"
                        ELSE cursor' = 1 /\ pc' = "confirm"
    /\ UNCHANGED << fs, fs0, links, force, pending_indices, executed, errors, last,
                    stdout >>

ResolvePending == ResolveWith(Readable(stdin_eof))

\* print_plan("Planned actions"); if !confirm_proceed() { "Aborted."; return }
Confirm ==
    /\ pc = "confirm"
    /\ \E line \in Readable(stdin_eof) :
         /\ stdin_eof' = (line = EndOfFile)
         /\ answer' = [to |-> "confirm", line |-> line,
                       as |-> IF confirm_proceed(line) THEN "yes" ELSE "no"]
         /\ events' = Append(events, [e |-> "confirm", idx |-> 0,
                                      action |-> IF confirm_proceed(line) THEN "yes" ELSE "no"])
         /\ pc' = IF ~confirm_proceed(line) THEN "aborted"
                  ELSE IF plan = <<>> THEN "done" ELSE "execute"
    /\ cursor' = 1
    /\ stdout' = stdout \o print_plan("Planned actions", plan)
    /\ UNCHANGED << fs, fs0, links, force, plan, pending_indices, executed, errors, last >>

\* mutant: a failed item is downgraded but its error is not recorded
ExecuteItem_error_dropped ==
    /\ pc = "execute"
    /\ LET item == plan[cursor]
           r == IF item.action = "Replace"
                THEN main_replace_link(fs, item.from, item.to)
                ELSE main_backup_and_replace(fs, item.from, item.to)
           failed == [item EXCEPT !.action = "Skip",
                                  !.reason = Some(IF item.action = "Replace"
                                                  THEN "replace failed"
                                                  ELSE "backup+replace failed")]
       IN  /\ events' = Append(events, [e |-> "exec", idx |-> cursor, action |-> item.action])
           /\ IF item.action \in {"Ignore", "Skip"}
              THEN /\ executed' = Append(executed, item)
                   /\ UNCHANGED << fs, errors, last >>
              ELSE IF item.action \in {"Replace", "BackupReplace"}
              THEN /\ fs' = r.fs
                   /\ last' = Call(item.action, item.from, item.to, r, fs)
                   /\ executed' = Append(executed, IF r.ok THEN item ELSE failed)
                   /\ errors' = errors
              ELSE UNCHANGED << fs, errors, last, executed >>
    /\ IF cursor < Len(plan)
       THEN cursor' = cursor + 1 /\ pc' = "execute"
       ELSE cursor' = 1 /\ pc' = "done"
    /\ answer' = NoAnswer
    /\ stdout' = IF cursor < Len(plan) THEN stdout
                 ELSE stdout \o print_plan("Outcome", executed')
    /\ UNCHANGED << fs0, links, force, plan, pending_indices, stdin_eof >>

\* mutant: the first failure ends the run
ExecuteItem_stop_at_failure ==
    /\ pc = "execute"
    /\ LET item == plan[cursor]
           r == IF item.action = "Replace"
                THEN main_replace_link(fs, item.from, item.to)
                ELSE main_backup_and_replace(fs, item.from, item.to)
           failed == [item EXCEPT !.action = "Skip",
                                  !.reason = Some(IF item.action = "Replace"
                                                  THEN "replace failed"
                                                  ELSE "backup+replace failed")]
           stop == item.action \in {"Replace", "BackupReplace"} /\ ~r.ok
       IN  /\ events' = Append(events, [e |-> "exec", idx |-> cursor, action |-> item.action])
           /\ IF item.action \in {"Ignore", "Skip"}
              THEN /\ executed' = Append(executed, item)
                   /\ UNCHANGED << fs, errors, last >>
              ELSE IF item.action \in {"Replace", "BackupReplace"}
              THEN /\ fs' = r.fs
                   /\ last' = Call(item.action, item.from, item.to, r, fs)
                   /\ executed' = Append(executed, IF r.ok THEN item ELSE failed)
                   /\ errors' = IF r.ok THEN errors
                                ELSE Append(errors, [to |-> item.to, err |-> r.err])
              ELSE UNCHANGED << fs, errors, last, executed >>
           /\ IF stop THEN cursor' = cursor /\ pc' = "aborted"
              ELSE IF cursor < Len(plan)
              THEN cursor' = cursor + 1 /\ pc' = "execute"
              ELSE cursor' = 1 /\ pc' = "done"
    /\ answer' = NoAnswer
    /\ stdout' = IF cursor < Len(plan) THEN stdout
                 ELSE stdout \o print_plan("Outcome", executed')
    /\ UNCHANGED << fs0, links, force, plan, pending_indices, stdin_eof >>

\* mutant: a Skip item is passed over like a Pending one
ExecuteItem_skip_dropped ==
    /\ pc = "execute"
    /\ LET item == plan[cursor]
           r == IF item.action = "Replace"
                THEN main_replace_link(fs, item.from, item.to)
                ELSE main_backup_and_replace(fs, item.from, item.to)
           failed == [item EXCEPT !.action = "Skip",
                                  !.reason = Some(IF item.action = "Replace"
                                                  THEN "replace failed"
                                                  ELSE "backup+replace failed")]
       IN  /\ events' = Append(events, [e |-> "exec", idx |-> cursor, action |-> item.action])
           /\ IF item.action = "Ignore"
              THEN /\ executed' = Append(executed, item)
                   /\ UNCHANGED << fs, errors, last >>
              ELSE IF item.action = "Skip"
              THEN UNCHANGED << fs, errors, last, executed >>
              ELSE IF item.action \in {"Replace", "BackupReplace"}
              THEN /\ fs' = r.fs
                   /\ last' = Call(item.action, item.from, item.to, r, fs)
                   /\ executed' = Append(executed, IF r.ok THEN item ELSE failed)
                   /\ errors' = IF r.ok THEN errors
                                ELSE Append(errors, [to |-> item.to, err |-> r.err])
              ELSE UNCHANGED << fs, errors, last, executed >>
    /\ IF cursor < Len(plan)
       THEN cursor' = cursor + 1 /\ pc' = "execute"
       ELSE cursor' = 1 /\ pc' = "done"
    /\ answer' = NoAnswer
    /\ stdout' = IF cursor < Len(plan) THEN stdout
                 ELSE stdout \o print_plan("Outcome", executed')
    /\ UNCHANGED << fs0, links, force, plan, pending_indices, stdin_eof >>

\* for mut item in plan { match item.action { ... } }: one item is executed
ExecuteItem ==
    /\ pc = "execute"
    /\ LET item == plan[cursor]
           r == IF item.action = "Replace"
                THEN main_replace_link(fs, item.from, item.to)
                ELSE main_backup_and_replace(fs, item.from, item.to)
           failed == [item EXCEPT !.action = "Skip",
                                  !.reason = Some(IF item.action = "Replace"
                                                  THEN "replace failed"
                                                  ELSE "backup+replace failed")]
       IN  /\ events' = Append(events, [e |-> "exec", idx |-> cursor, action |-> item.action])
           /\ IF item.action \in {"Ignore", "Skip"}
              THEN /\ executed' = Append(executed, item)
                   /\ UNCHANGED << fs, errors, last >>
              ELSE IF item.action \in {"Replace", "BackupReplace"}
              THEN /\ fs' = r.fs
                   /\ last' = Call(item.action, item.from, item.to, r, fs)
                   /\ executed' = Append(executed, IF r.ok THEN item ELSE failed)
                   /\ errors' = IF r.ok THEN errors
                                ELSE Append(errors, [to |-> item.to, err |-> r.err])
              ELSE UNCHANGED << fs, errors, last, executed >>
    /\ IF cursor < Len(plan)
       THEN cursor' = cursor + 1 /\ pc' = "execute"
       ELSE cursor' = 1 /\ pc' = "done"
    /\ answer' = NoAnswer
    /\ stdout' = IF cursor < Len(plan) THEN stdout
                 ELSE stdout \o print_plan("Outcome", executed')
    /\ UNCHANGED << fs0, links, force, plan, pending_indices, stdin_eof >>

(***************************************************************************)
(* The initial states: a source tree, a home directory, a config whose     *)
(* lines passed read_config (every source exists, every destination has an *)
(* existing parent), and anything at the destinations.                     *)
(***************************************************************************)
SrcFile == Abs(<<"s", "f">>)
SrcDir == Abs(<<"s", "d">>)
SrcLink == Abs(<<"s", "l">>)        \* a symlink to SrcFile, by a relative target
SrcRel == Rel(<<"f">>)              \* SrcFile as declared relative to the working directory
DestA == Abs(<<"h", "a">>)
DestB == Abs(<<"h", "b">>)
DestIn == Abs(<<"h", "a", "f">>)    \* a destination inside the directory DestA can be

BaseFs ==
    (<<>> :> DirNode) @@ (<<"s">> :> DirNode) @@ (<<"h">> :> DirNode)
    @@ (<<"s", "f">> :> FileNode("src"))
    @@ (<<"s", "d">> :> DirNode) @@ (<<"s", "d", "n">> :> FileNode("nested"))
    @@ (<<"s", "l">> :> LinkNode(Rel(<<"f">>)))
    @@ (<<"s", "dbdm.conf">> :> FileNode("config"))

Nothing == [x \in {} |-> DirNode]

\* what can be at a destination q before the run
Dispositions(q) ==
    { Nothing,
      q :> FileNode(""),
      q :> FileNode("old"),
      q :> DirNode,
      (q :> DirNode) @@ (Append(q, "e") :> DirNode),
      (q :> DirNode) @@ (Append(q, "x") :> FileNode("")),
      (q :> DirNode) @@ (Append(q, "f") :> FileNode("old")),
      (q :> DirNode) @@ (Append(q, "k") :> LinkNode(SrcFile)),
      q :> LinkNode(SrcFile),
      q :> LinkNode(Rel(<<"..", "s", "f">>)),
      (q :> LinkNode(Rel(<<"g">>))) @@ (Append(Front(q), "g") :> LinkNode(SrcFile)),
      q :> LinkNode(SrcDir),
      q :> LinkNode(SrcLink),
      q :> LinkNode(Abs(<<"s", "zz">>)) }

FewDispositions(q) ==
    { Nothing,
      (q :> DirNode) @@ (Append(q, "f") :> FileNode("older")) }

Froms == {SrcFile, SrcDir, SrcLink, SrcRel}
LinkSpecs ==
    [from : Froms, to : {DestA}] \cup [from : {SrcDir}, to : {DestB}]
    \cup [from : {SrcFile}, to : {DestIn}]
Configs == UNION {[1..n -> LinkSpecs] : n \in 0..MaxLinks}

Declared(cfg, tos) == \E k \in 1..Len(cfg) : cfg[k].to \in tos

\* parse_line accepted the line: <from> exists, and <to> or its parent does
Parsed(f, link) ==
    /\ exists(f, link.from)
    /\ exists(f, link.to) \/ (has_parent(link.to) /\ exists(f, parent(link.to)))

Init ==
    /\ links \in Configs
    /\ force \in BOOLEAN
    /\ \E da \in Dispositions(DestA.segs), db \in FewDispositions(DestB.segs) :
         /\ ~Declared(links, {DestA, DestIn}) => da = Nothing
         /\ ~Declared(links, {DestB}) => db = Nothing
         /\ fs = da @@ db @@ BaseFs
    /\ \A k \in 1..Len(links) : Parsed(fs, links[k])
    /\ fs0 = fs
    /\ pc = IF links = <<>> THEN "confirm" ELSE "classify"
    /\ cursor = 1
    /\ plan = <<>>
    /\ pending_indices = <<>>
    /\ executed = <<>>
    /\ errors = <<>>
    /\ stdin_eof = FALSE
    /\ answer = NoAnswer
    /\ events = <<>>
    /\ last = NoCall
    /\ stdout = <<>>

Next == ClassifyLink \/ ResolvePending \/ Confirm \/ ExecuteItem

Spec == Init /\ [][Next]_vars

(***************************************************************************)
(* Runs in which a mutation fails early: a destination that holds its own  *)
(* source cannot be moved into the backup directory, which lies inside it. *)
(* The executor loop is a plain `for` over a vector and every call in its  *)
(* body returns: an iteration that is begun is completed and the loop      *)
(* moves on, which is the fairness assumed of it.                          *)
(***************************************************************************)
MaxRun == 3          \* longest config.links of such a run

DestOwn == Abs(<<"s">>)
RunSpecs ==
    { [from |-> SrcFile, to |-> DestOwn],
      [from |-> SrcFile, to |-> DestA],
      [from |-> SrcDir, to |-> DestA] }
RunConfigs == UNION {[1..n -> RunSpecs] : n \in 1..MaxRun}

InitRun ==
    /\ links \in RunConfigs
    /\ force \in BOOLEAN
    /\ \E da \in FewDispositions(DestA.segs) :
         /\ ~Declared(links, {DestA}) => da = Nothing
         /\ fs = da @@ BaseFs
    /\ \A k \in 1..Len(links) : Parsed(fs, links[k])
    /\ fs0 = fs
    /\ pc = "classify"
    /\ cursor = 1
    /\ plan = <<>>
    /\ pending_indices = <<>>
    /\ executed = <<>>
    /\ errors = <<>>
    /\ stdin_eof = FALSE
    /\ answer = NoAnswer
    /\ events = <<>>
    /\ last = NoCall
    /\ stdout = <<>>

\* the control flow of ExecuteItem: the loop passes to the next item or ends
LoopAdvances ==
    /\ pc = "execute"
    /\ cursor' = IF cursor < Len(plan) THEN cursor + 1 ELSE 1
    /\ pc' = IF cursor < Len(plan) THEN "execute" ELSE "done"

SpecRun == InitRun /\ [][Next]_vars /\ WF_<<pc, cursor>>(LoopAdvances)

(***************************************************************************)
(* The sync command as a running process: it is a single thread that is    *)
(* never suspended for good, so that a loop iteration or a call that can   *)
(* be made is made.  A read at the end of the input returns at once.       *)
(***************************************************************************)
SpecFair ==
    /\ Init /\ [][Next]_vars
    /\ WF_vars(ClassifyLink)
    /\ WF_vars(ResolvePending)
    /\ WF_vars(Confirm)
    /\ WF_<<pc, cursor>>(LoopAdvances)

(***************************************************************************)
(* The primitives of src/lib.rs called directly, as its tests call them:   *)
(* on any file system, with any arguments (a source may be missing), one   *)
(* call after another.                                                     *)
(***************************************************************************)
MaxCalls == 2        \* calls made in a row

Missing == Abs(<<"s", "zz">>)
LibFroms == Froms \cup {Missing}
LibTos == {DestA, DestIn}

InitLib ==
    /\ \E da \in Dispositions(DestA.segs) : fs = da @@ BaseFs
    /\ fs0 = fs
    /\ links = <<>>
    /\ force = FALSE
    /\ pc = "lib"
    /\ cursor = 0
    /\ plan = <<>>
    /\ pending_indices = <<>>
    /\ executed = <<>>
    /\ errors = <<>>
    /\ stdin_eof = FALSE
    /\ answer = NoAnswer
    /\ events = <<>>
    /\ last = NoCall
    /\ stdout = <<>>

CallReplaceLink ==
    /\ pc = "lib" /\ cursor < MaxCalls
    /\ \E from \in LibFroms, to \in LibTos :
         LET r == replace_link(fs, from, to)
         IN  /\ fs' = r.fs
             /\ last' = Call("replace_link", from, to, r, fs)
    /\ cursor' = cursor + 1
    /\ UNCHANGED << fs0, links, force, pc, plan, pending_indices, executed, errors,
                    stdin_eof, answer, events, stdout >>

CallBackupAndReplace ==
    /\ pc = "lib" /\ cursor < MaxCalls
    /\ \E from \in LibFroms, to \in LibTos :
         LET r == backup_and_replace(fs, from, to)
         IN  /\ fs' = r.fs
             /\ last' = Call("backup_and_replace", from, to, r, fs)
    /\ cursor' = cursor + 1
    /\ UNCHANGED << fs0, links, force, pc, plan, pending_indices, executed, errors,
                    stdin_eof, answer, events, stdout >>

NextLib == CallReplaceLink \/ CallBackupAndReplace

SpecLib == InitLib /\ [][NextLib]_vars

\* the k-th candidate: base for 0, base.k afterwards
Variant(dir, base, k) ==
    IF k = 0 THEN join_name(dir, base) ELSE join_name(dir, base \o "." \o ToString(k))

(***************************************************************************)
(* unique_backup_path called directly, as tests/unique_backup_path.rs      *)
(* calls it: on a directory where some of the candidate names are taken,   *)
(* by a file, a directory or a symlink, and taking the name it returned    *)
(* before calling it again.                                                *)
(***************************************************************************)
MaxTaken == 2        \* highest numbered candidate taken before the first call

NameDir == Abs(<<"h">>)
NameDirs == {NameDir, Abs(<<"s">>)}
Names == {"nvim", "a"}

\* what can bear a candidate name q
Takers(q) ==
    { Nothing,
      q :> FileNode("existing"),
      q :> DirNode,
      q :> LinkNode(SrcFile),
      q :> LinkNode(Missing) }

RECURSIVE Taken(_)
Taken(k) ==
    LET here == { t : t \in Takers(Variant(NameDir, "nvim.bak.dbdm", k).segs) }
    IN  IF k = 0 THEN here
        ELSE { t @@ u : t \in here, u \in Taken(k - 1) }

\* std::fs::write: creates the file, or truncates it, through symlinks
write(f, p, c) ==
    LET st == Stat(f, p)
    IN  IF st.ok
        THEN IF f[st.path].kind = "file"
             THEN Ok([f EXCEPT ![st.path] = FileNode(c)])
             ELSE Err(f, "IsADirectory")
        ELSE IF st.free THEN Ok((st.path :> FileNode(c)) @@ f)
        ELSE Err(f, st.err)

InitNames ==
    /\ \E t \in Taken(MaxTaken) : fs = t @@ BaseFs
    /\ fs0 = fs
    /\ links = <<>>
    /\ force = FALSE
    /\ pc = "names"
    /\ cursor = 0
    /\ plan = <<>>
    /\ pending_indices = <<>>
    /\ executed = <<>>
    /\ errors = <<>>
    /\ stdin_eof = FALSE
    /\ answer = NoAnswer
    /\ events = <<>>
    /\ last = NoCall
    /\ stdout = <<>>

CallUniqueBackupPath ==
    /\ pc = "names" /\ cursor < MaxCalls
    /\ \E dir \in NameDirs, name \in Names :
         last' = Call("unique_backup_path", dir, Rel(<<name>>),
                      Done(Ok(fs), NoPath, unique_backup_path(fs, dir, name)), fs)
    /\ cursor' = cursor + 1
    /\ UNCHANGED << fs, fs0, links, force, pc, plan, pending_indices, executed, errors,
                    stdin_eof, answer, events, stdout >>

\* std::fs::write(&candidate, "existing")
WriteCandidate ==
    /\ pc = "names" /\ last.op = "unique_backup_path"
    /\ LET r == write(fs, last.backup, "existing")
       IN  /\ fs' = r.fs
           /\ last' = Call("write", last.from, last.to, Done(r, NoPath, last.backup), fs)
    /\ UNCHANGED << fs0, links, force, pc, cursor, plan, pending_indices, executed,
                    errors, stdin_eof, answer, events, stdout >>

NextNames == CallUniqueBackupPath \/ WriteCandidate

SpecNames == InitNames /\ [][NextNames]_vars

(***************************************************************************)
(* print_plan called on any plan: items of every action, Pending too, with *)
(* or without a reason, under either title.                                *)
(***************************************************************************)
MaxReport == 3       \* longest plan printed

Actions == {"Ignore", "Skip", "Replace", "BackupReplace", "Pending"}
ReportItems ==
    { PlanItem(SrcFile, to, action, reason) :
        to \in {DestA, DestB}, action \in Actions, reason \in {None, Some("replace failed")} }
ReportPlans == UNION {[1..n -> ReportItems] : n \in 0..MaxReport}

InitReport ==
    /\ plan \in ReportPlans
    /\ fs = BaseFs
    /\ fs0 = fs
    /\ links = <<>>
    /\ force = FALSE
    /\ pc = "report"
    /\ cursor = 0
    /\ pending_indices = <<>>
    /\ executed = <<>>
    /\ errors = <<>>
    /\ stdin_eof = FALSE
    /\ answer = NoAnswer
    /\ events = <<>>
    /\ last = NoCall
    /\ stdout = <<>>

CallPrintPlan ==
    /\ pc = "report"
    /\ \E title \in {"Planned actions", "Outcome"} : stdout' = print_plan(title, plan)
    /\ pc' = "printed"
    /\ UNCHANGED << fs, fs0, links, force, cursor, plan, pending_indices, executed, errors,
                    stdin_eof, answer, events, last >>

NextReport == CallPrintPlan

SpecReport == InitReport /\ [][NextReport]_vars

(***************************************************************************)
(* resolve_symlink_target called directly, as its tests call it: on any    *)
(* link path and any target, absolute or relative, of a few components.    *)
(***************************************************************************)
MaxPath == 2         \* components of a path given to it

Components == {"links", "config", "..", "nvim"}
PathsUpTo(n) ==
    { [abs |-> a, segs |-> q] : a \in BOOLEAN, q \in UNION {[1..m -> Components] : m \in 0..n} }

InitTarget ==
    /\ fs = BaseFs
    /\ fs0 = fs
    /\ links = <<>>
    /\ force = FALSE
    /\ pc = "target"
    /\ cursor = 0
    /\ plan = <<>>
    /\ pending_indices = <<>>
    /\ executed = <<>>
    /\ errors = <<>>
    /\ stdin_eof = FALSE
    /\ answer = NoAnswer
    /\ events = <<>>
    /\ last = NoCall
    /\ stdout = <<>>

CallResolveSymlinkTarget ==
    /\ pc = "target"
    /\ \E link_path \in PathsUpTo(MaxPath), target \in PathsUpTo(MaxPath) :
         last' = Call("resolve_symlink_target", link_path, target,
                      Done(Ok(fs), resolve_symlink_target(link_path, target), NoPath), fs)
    /\ pc' = "resolved"
    /\ UNCHANGED << fs, fs0, links, force, cursor, plan, pending_indices, executed, errors,
                    stdin_eof, answer, events, stdout >>

NextTarget == CallResolveSymlinkTarget

SpecTarget == InitTarget /\ [][NextTarget]_vars

(***************************************************************************)
(* The config parser (src/config_parser.rs).  The text of dbdm.conf is a   *)
(* sequence of lines, a line a sequence of tokens: the character '=', a    *)
(* whitespace character, or a run of other characters, which is kept as    *)
(* the pieces of a path text ("/", a name, a keyword).                     *)
(***************************************************************************)
EQ == [t |-> "eq", text |-> <<"=">>]
SP == [t |-> "ws", text |-> <<" ">>]
FF == [t |-> "ws", text |-> <<"\f">>]     \* whitespace that is neither space nor tab
W(pieces) == [t |-> "word", text |-> pieces]

ConfPath == Abs(<<"s", "dbdm.conf">>)

\* format!: the message, the line index if the message has one, the count
\* or path it ends with if it has one
ConfError(msg, line, found, path) ==
    [msg |-> msg, line |-> line, found |-> found, path |-> path]
ParseOk(link) == [ok |-> TRUE, link |-> link, err |-> ConfError("", None, None, NoPath)]
ParseErr(e) == [ok |-> FALSE, link |-> [from |-> NoPath, to |-> NoPath], err |-> e]

\* str::trim on a token sequence
RECURSIVE trim_tokens_start(_)
trim_tokens_start(toks) ==
    IF toks # <<>> /\ Head(toks).t = "ws" THEN trim_tokens_start(Tail(toks)) ELSE toks
RECURSIVE trim_tokens_end(_)
trim_tokens_end(toks) ==
    IF toks # <<>> /\ Last(toks).t = "ws" THEN trim_tokens_end(Front(toks)) ELSE toks
trim_tokens(toks) == trim_tokens_end(trim_tokens_start(toks))

\* the characters of a token sequence
RECURSIVE flat(_)
flat(toks) == IF toks = <<>> THEN <<>> ELSE Head(toks).text \o flat(Tail(toks))

\* str::split_whitespace: the maximal runs without whitespace
RECURSIVE split_runs(_, _, _)
split_runs(toks, cur, acc) ==
    LET closed == IF cur = <<>> THEN acc ELSE Append(acc, cur)
    IN  IF toks = <<>> THEN closed
        ELSE IF Head(toks).t = "ws" THEN split_runs(Tail(toks), <<>>, closed)
        ELSE split_runs(Tail(toks), cur \o Head(toks).text, acc)
split_whitespace(toks) == split_runs(toks, <<>>, <<>>)

\* PARAMS_REGEXP on the trimmed parameters: two runs of non-whitespace
\* separated by spaces and tabs only
params_match(toks) ==
    /\ Len(split_whitespace(toks)) = 2
    /\ \A k \in 1..Len(toks) : toks[k].t = "ws" => toks[k].text \in {<<" ">>, <<"\t">>}

Keywords == {"!here", "!home", "!xdg_conf"}
HomeText == <<"/", "h">>
XdgText == <<"/", "h", "/", ".config">>
HereText == <<"/">> \o Cwd

\* expand_keywords: [ok, text]
RECURSIVE replace_keywords(_)
replace_keywords(text) ==
    IF text = <<>> THEN <<>>
    ELSE (IF Head(text) = "!here" THEN HereText
          ELSE IF Head(text) = "!home" THEN HomeText
          ELSE IF Head(text) = "!xdg_conf" THEN XdgText
          ELSE <<Head(text)>>) \o replace_keywords(Tail(text))
expand_keywords(text) ==
    LET bang == \E k \in 1..Len(text) : text[k] \in Keywords \cup {"!nope"}
        known == \E k \in 1..Len(text) : text[k] \in Keywords
    IN  IF bang /\ ~known THEN [ok |-> FALSE, text |-> text]
        ELSE [ok |-> TRUE, text |-> replace_keywords(text)]

\* PathBuf::from: the components of a path text
PathBufFrom(text) ==
    [abs |-> text # <<>> /\ Head(text) = "/",
     segs |-> SelectSeq(text, LAMBDA c : c # "/")]

parse_line(f, line, idx) ==
    LET eqs == { k \in 1..Len(line) : line[k].t = "eq" }
        at == CHOOSE k \in eqs : \A j \in eqs : k <= j
        text_kind == SubSeq(line, 1, at - 1)
        text_params == trim_tokens(SubSeq(line, at + 1, Len(line)))
        values == split_whitespace(text_params)
        from == expand_keywords(values[1])
        to == expand_keywords(values[2])
        from_path == PathBufFrom(from.text)
        to_path == PathBufFrom(to.text)
    IN  IF eqs = {}
        THEN ParseErr(ConfError("Invalid syntax", Some(idx), None, NoPath))
        ELSE IF text_params = <<>>
        THEN ParseErr(ConfError("Invalid number of values", Some(idx), Some(0), NoPath))
        ELSE IF Len(values) # 2
        THEN ParseErr(ConfError("Invalid number of values", Some(idx), Some(Len(values)),
                                NoPath))
        ELSE IF flat(trim_tokens(text_kind)) # <<"link">>
        THEN ParseErr(ConfError("Invalid path syntax", Some(idx), None, NoPath))
        ELSE IF ~params_match(text_params)
        THEN ParseErr(ConfError("Unknown error encountered while parsing", Some(idx), None,
                                NoPath))
        ELSE IF ~from.ok \/ ~to.ok
        THEN ParseErr(ConfError("Invalid keyword", Some(idx), None, NoPath))
        ELSE IF ~exists(f, from_path)
        THEN ParseErr(ConfError("<from> path doest contain any object", Some(idx), None,
                                NoPath))
        ELSE IF ~exists(f, to_path) /\ ~has_parent(to_path)
        THEN ParseErr(ConfError("Path has no parent", None, None, to_path))
        ELSE IF ~exists(f, to_path) /\ ~exists(f, parent(to_path))
        THEN ParseErr(ConfError("Parent directory does not exist", None, None,
                                parent(to_path)))
        ELSE ParseOk([from |-> from_path, to |-> to_path])

\* for (idx, line) in content.lines().enumerate() { ... }: [ok, links, err]
RECURSIVE read_lines(_, _, _, _)
read_lines(f, lines, idx, acc) ==
    IF idx >= Len(lines)
    THEN [ok |-> TRUE, links |-> acc, err |-> ConfError("", None, None, NoPath)]
    ELSE LET r == parse_line(f, lines[idx + 1], idx)
         IN  IF r.ok THEN read_lines(f, lines, idx + 1, Append(acc, r.link))
             ELSE [ok |-> FALSE, links |-> <<>>, err |-> r.err]

read_config(f, path) ==
    LET st == Stat(f, path)
    IN  IF st.ok /\ f[st.path].kind = "file"
        THEN read_lines(f, f[st.path].content, 0, <<>>)
        ELSE [ok |-> FALSE, links |-> <<>>,
              err |-> ConfError("read_to_string", None, None, path)]

(***************************************************************************)
(* read_config called on a dbdm.conf of a few lines, well-formed and not.  *)
(***************************************************************************)
MaxLines == 2        \* lines of dbdm.conf

TextF == <<"/", "s", "/", "f">>
TextD == <<"/", "s", "/", "/", "d", "/">>
TextA == <<"/", "h", "/", "a">>
TextB == <<"/", "h", "/", "b">>

ConfLines ==
    { <<W(<<"link">>), SP, EQ, SP, W(TextF), SP, W(TextA)>>,
      <<SP, W(<<"link">>), EQ, W(TextD), SP, SP, W(TextB), SP>>,
      <<W(<<"link">>), SP, EQ, SP, W(<<"!here", "/", "f">>), SP, W(<<"!home", "/", "a">>)>>,
      <<W(<<"lonk">>), SP, EQ, SP, W(TextF), SP, W(TextA)>>,
      <<W(<<"link">>), SP, EQ, SP, W(TextF), SP, W(TextA), SP, W(TextD)>>,
      <<W(<<"link">>), SP, EQ, SP, W(TextF)>>,
      <<W(<<"link">>), SP, EQ, SP>>,
      <<W(<<"lonk">>), SP, EQ, SP, W(TextF)>>,
      <<>>,
      <<W(<<"link">>), SP, W(TextF), SP, W(TextA)>>,
      <<W(<<"link">>), SP, EQ, SP, W(<<"/", "s", "/", "zz">>), SP, W(TextA)>>,
      <<W(<<"link">>), SP, EQ, SP, W(TextF), SP, W(<<"/", "n", "/", "x">>)>>,
      <<W(<<"link">>), SP, EQ, SP, W(TextF), FF, W(TextA)>>,
      <<W(<<"link">>), SP, EQ, SP, W(<<"!nope", "/", "f">>), SP, W(TextA)>> }
ConfTexts == UNION {[1..n -> ConfLines] : n \in 0..MaxLines}

InitConfig ==
    /\ \E text \in ConfTexts : fs = (ConfPath.segs :> FileNode(text)) @@ BaseFs
    /\ fs0 = fs
    /\ links = <<>>
    /\ force = FALSE
    /\ pc = "config"
    /\ cursor = 0
    /\ plan = <<>>
    /\ pending_indices = <<>>
    /\ executed = <<>>
    /\ errors = <<>>
    /\ stdin_eof = FALSE
    /\ answer = NoAnswer
    /\ events = <<>>
    /\ last = NoCall
    /\ stdout = <<>>

\* let config = match config_parser::read_config(&pwd) { ... }
CallReadConfig ==
    /\ pc = "config"
    /\ LET r == read_config(fs, ConfPath)
       IN  /\ links' = r.links
           /\ last' = Call("read_config", ConfPath, NoPath,
                           [ok |-> r.ok, err |-> r.err, dest |-> NoPath, backup |-> NoPath], fs)
           /\ pc' = IF r.ok THEN "parsed" ELSE "config error"
    /\ UNCHANGED << fs, fs0, force, cursor, plan, pending_indices, executed, errors,
                    stdin_eof, answer, events, stdout >>

NextConfig == CallReadConfig

SpecConfig == InitConfig /\ [][NextConfig]_vars

(***************************************************************************)
(* The choice prompt on its own: one pending conflict, and lines of every  *)
(* accepted word in either case, of other words, with and without          *)
(* whitespace around them.                                                 *)
(***************************************************************************)
Prefixes == {<<>>, <<" ">>, <<"\t", " ">>}
Suffixes == {<<>>, <<NL>>, <<" ", NL>>, <<"\r", NL>>}
Cores ==
    { <<"r">>, <<"R">>, <<"r", "e", "p", "l", "a", "c", "e">>,
      <<"R", "e", "P", "L", "A", "c", "E">>,
      <<"b">>, <<"B">>, <<"b", "a", "c", "k", "u", "p">>, <<"B", "A", "C", "K", "U", "P">>,
      <<"s">>, <<"S">>, <<"s", "k", "i", "p">>, <<"S", "k", "i", "P">>,
      <<>>, <<"x">>, <<"r", "r">>, <<"r", "e">>, <<"y">>, <<"r", " ", "s">>,
      <<"s", "k", "i", "p", "s">> }
PromptLines == { Line(a \o c \o z) : a \in Prefixes, c \in Cores, z \in Suffixes } \cup {ReadError}

InitPrompt ==
    /\ fs = (DestA.segs :> FileNode("old")) @@ BaseFs
    /\ fs0 = fs
    /\ links = << [from |-> SrcFile, to |-> DestA] >>
    /\ force = FALSE
    /\ pc = "resolve"
    /\ cursor = 1
    /\ plan = << PlanItem(SrcFile, DestA, "Pending", None) >>
    /\ pending_indices = << 1 >>
    /\ executed = <<>>
    /\ errors = <<>>
    /\ stdin_eof = FALSE
    /\ answer = NoAnswer
    /\ events = <<>>
    /\ last = NoCall
    /\ stdout = <<>>

PromptTurn == ResolveWith(IF stdin_eof THEN {EndOfFile} ELSE PromptLines \cup {EndOfFile})

NextPrompt == PromptTurn

SpecPrompt == InitPrompt /\ [][NextPrompt]_vars

(***************************************************************************)
(* The check command (src/main.rs, fn check): one line of report for each  *)
(* link, green when the link is found in place and red when it is not.     *)
(***************************************************************************)
\* let is_match = match std::fs::read_link(&link.to) { ... }
check_is_match(f, link) ==
    /\ lkind(f, link.to) = "symlink"
    /\ canonicalize_or_fallback(f, read_link(f, link.to))
         = canonicalize_or_fallback(f, link.from)

CheckLine(f, link) ==
    [kind |-> "check",
     label |-> IF check_is_match(f, link) THEN "green" ELSE "red",
     from |-> canonicalize_or_fallback(f, link.from),
     to |-> canonicalize_or_fallback(f, link.to)]

InitCheck ==
    /\ links \in Configs
    /\ force = FALSE
    /\ \E da \in Dispositions(DestA.segs), db \in FewDispositions(DestB.segs) :
         /\ ~Declared(links, {DestA, DestIn}) => da = Nothing
         /\ ~Declared(links, {DestB}) => db = Nothing
         /\ fs = da @@ db @@ BaseFs
    /\ \A k \in 1..Len(links) : Parsed(fs, links[k])
    /\ fs0 = fs
    /\ pc = IF links = <<>> THEN "checked" ELSE "check"
    /\ cursor = 1
    /\ plan = <<>>
    /\ pending_indices = <<>>
    /\ executed = <<>>
    /\ errors = <<>>
    /\ stdin_eof = FALSE
    /\ answer = NoAnswer
    /\ events = <<>>
    /\ last = NoCall
    /\ stdout = <<>>

\* for link in &config.links { ... }: one link is checked and reported
CheckLink ==
    /\ pc = "check"
    /\ stdout' = Append(stdout, CheckLine(fs, links[cursor]))
    /\ IF cursor < Len(links)
       THEN cursor' = cursor + 1 /\ pc' = "check"
       ELSE cursor' = 1 /\ pc' = "checked"
    /\ UNCHANGED << fs, fs0, links, force, plan, pending_indices, executed, errors,
                    stdin_eof, answer, events, last >>

NextCheck == CheckLink

SpecCheck == InitCheck /\ [][NextCheck]_vars

\* the file system stays a tree: every entry but the root is in a directory
WellFormed ==
    /\ <<>> \in DOMAIN fs /\ fs[<<>>].kind = "dir"
    /\ \A x \in DOMAIN fs : x # <<>> =>
         Front(x) \in DOMAIN fs /\ fs[Front(x)].kind = "dir"

(***************************************************************************)
(* Vocabulary of the properties.                                           *)
(***************************************************************************)
Items == 1..Len(plan)

\* following the destination reaches the very node the declared source names
CorrectlyLinked(f, from, to) ==
    /\ lkind(f, to) = "symlink"
    /\ Stat(f, to).ok /\ Stat(f, from).ok
    /\ Stat(f, to).path = Stat(f, from).path

\* an empty file, or a directory holding only empty files and directories
IsEmptyAt(f, p) ==
    /\ LStat(f, p).ok
    /\ \A x \in Subtree(f, LStat(f, p).path) :
         f[x].kind = "dir" \/ (f[x].kind = "file" /\ f[x].content = "")

\* the destination exists, is not linked to its source and holds something
Conflicting(f, from, to) ==
    /\ symlink_metadata_ok(f, to)
    /\ ~CorrectlyLinked(f, from, to)
    /\ ~IsEmptyAt(f, to)

\* what is at p: the node and everything beneath it, by relative path
TreeOf(f, p) ==
    LET q == LStat(f, p).path
    IN  IF ~LStat(f, p).ok THEN Nothing
        ELSE [x \in {SubSeq(y, Len(q) + 1, Len(y)) : y \in Subtree(f, q)} |-> f[q \o x]]

IsPending(k) == \E j \in 1..Len(pending_indices) : pending_indices[j] = k
Choices(k) == {j \in 1..Len(events) : events[j].e = "choice" /\ events[j].idx = k}
ChoseReplace(k) == \E j \in Choices(k) : events[j].action = "Replace"
Asked == \E j \in 1..Len(events) : events[j].e = "confirm"
Accepted == \E j \in 1..Len(events) : events[j].e = "confirm" /\ events[j].action = "yes"
Mutated == \E j \in 1..Len(events) : events[j].e = "exec"
Resolved == pc \in {"confirm", "execute", "done", "aborted"}

(***************************************************************************)
(* C1.  A link whose destination does not exist when it is classified gets *)
(* the action Replace, is not prompted for, and once the run is done the   *)
(* destination is a symlink that resolves to the declared source.          *)
(***************************************************************************)
C1_MissingDestinationIsReplaced ==
    \A k \in Items :
        ~symlink_metadata_ok(fs0, plan[k].to) =>
            /\ plan[k].action = "Replace"
            /\ ~IsPending(k)
            /\ pc = "done" => CorrectlyLinked(fs, plan[k].from, plan[k].to)

(***************************************************************************)
(* C2.  A link whose destination is already a symlink that resolves to the *)
(* node its declared source resolves to is classified Ignore (and is not   *)
(* queued for a prompt), and executing its item changes nothing in the     *)
(* file system.                                                            *)
(***************************************************************************)
C2_LinkedIsIgnoredAndUntouched ==
    [][ /\ (pc = "classify" /\ CorrectlyLinked(fs, links[cursor].from, links[cursor].to))
            => /\ plan' = Append(plan, PlanItem(links[cursor].from, links[cursor].to,
                                                "Ignore", None))
               /\ pending_indices' = pending_indices
        /\ (pc = "execute" /\ CorrectlyLinked(fs0, plan[cursor].from, plan[cursor].to))
            => /\ fs' = fs
               /\ executed' = Append(executed, plan[cursor]) ]_vars

C2_Witness ==
    /\ pc = "done"
    /\ \E k \in 1..Len(executed) :
         /\ executed[k].action = "Ignore"
         /\ executed[k].from = SrcLink
         /\ lkind(fs0, executed[k].to) = "symlink"
         /\ is_relative(read_link(fs0, executed[k].to))

(***************************************************************************)
(* C3.  An item has the action Ignore only if its destination was, when    *)
(* classified, a symlink that resolves to the node its declared source     *)
(* resolves to: a symlink to anything else, a file or a directory is never *)
(* Ignore.                                                                 *)
(***************************************************************************)
C3_IgnoreOnlyWhenLinked ==
    \A k \in Items :
        plan[k].action = "Ignore" => CorrectlyLinked(fs0, plan[k].from, plan[k].to)

C3_Witness ==
    \E k \in Items, j \in Items :
        /\ plan[k].action = "Ignore"
        /\ lkind(fs0, plan[j].to) = "symlink" /\ plan[j].action # "Ignore"

(***************************************************************************)
(* C4.  In a run without --force, a destination that is empty (an empty    *)
(* file, or a directory holding only empty files and directories) gets the *)
(* action Replace, is not prompted for, and once the run is done it is a   *)
(* symlink that resolves to the declared source.                           *)
(***************************************************************************)
C4_EmptyDestinationIsReplaced ==
    ~force =>
        \A k \in Items :
            IsEmptyAt(fs0, plan[k].to) =>
                /\ plan[k].action = "Replace"
                /\ ~IsPending(k)
                /\ pc = "done" => CorrectlyLinked(fs, plan[k].from, plan[k].to)

(***************************************************************************)
(* C5.  A destination that exists, is not linked to its source and is not  *)
(* empty: with --force its item is Replace and no choice is asked for it;  *)
(* without, the item is Pending until its one choice is made, and from     *)
(* then on its action is the one the prompt returned - Replace for "r",    *)
(* BackupReplace for "backup", Skip for "s".                               *)
(***************************************************************************)
C5_ConflictForcedOrChosen ==
    /\ \A k \in Items :
         Conflicting(fs0, plan[k].from, plan[k].to) =>
            IF force
            THEN plan[k].action = "Replace" /\ Choices(k) = {} /\ ~IsPending(k)
            ELSE /\ IsPending(k)
                 /\ Cardinality(Choices(k)) <= 1
                 /\ Choices(k) = {} => plan[k].action = "Pending"
                 /\ \A j \in Choices(k) : plan[k].action = events[j].action
                 /\ Resolved => Cardinality(Choices(k)) = 1
    /\ (answer.to = "choice" /\ answer.as # "") =>
         /\ events # <<>> /\ Last(events).e = "choice" /\ Last(events).action = answer.as
         /\ answer.line = Line(<<"r", NL>>) => answer.as = "Replace"
         /\ answer.line = Line(<<" ", "B", "a", "c", "k", "u", "p", " ", NL>>)
              => answer.as = "BackupReplace"
         /\ answer.line = Line(<<"S">>) => answer.as = "Skip"

C5_Witness ==
    /\ ~force /\ pc = "confirm"
    /\ \E k \in Items, j \in Items :
         /\ Conflicting(fs0, plan[k].from, plan[k].to) /\ plan[k].action = "BackupReplace"
         /\ Conflicting(fs0, plan[j].from, plan[j].to) /\ plan[j].action = "Skip"

(***************************************************************************)
(* C6.  In a run without --force, what was at or beneath a declared        *)
(* destination before the run (a non-empty file or a symlink, alone or in  *)
(* a directory) is still where it was, or was moved aside together with    *)
(* the destination it belongs to, unless the confirmation was accepted and *)
(* the prompt returned replace for an item that declares that destination. *)
(* When several items declare the destination this asks for replace on one *)
(* of them only, the weakest reading of "the item owning it".              *)
(***************************************************************************)
Leaf0(x) == fs0[x].kind = "symlink" \/ (fs0[x].kind = "file" /\ fs0[x].content # "")

\* item k declares a destination that x was at or beneath before the run
Owns(k, x) ==
    /\ LStat(fs0, plan[k].to).ok
    /\ IsPrefix(LStat(fs0, plan[k].to).path, x)

\* x is where it was, or the destination q it was under went to b with it
Kept(x) ==
    \/ x \in DOMAIN fs /\ fs[x] = fs0[x]
    \/ \E k \in Items, b \in DOMAIN fs :
         LET q == LStat(fs0, plan[k].to).path
             y == b \o SubSeq(x, Len(q) + 1, Len(x))
         IN  Owns(k, x) /\ b # q /\ y \in DOMAIN fs /\ fs[y] = fs0[x]

C6_LostOnlyIfAnOwnerChoseReplace ==
    ~force =>
        \A x \in DOMAIN fs0 :
            (Leaf0(x) /\ ~Kept(x) /\ \E k \in Items : Owns(k, x))
                => (Accepted /\ \E k \in Items : Owns(k, x) /\ ChoseReplace(k))

(***************************************************************************)
(* C7.  When the answer to the confirmation is anything but "y" or "yes"   *)
(* (in any case), or cannot be read, the run is aborted: no item is        *)
(* executed and the file system is what it was before the run.             *)
(***************************************************************************)
C7_DeclinedLeavesAllUntouched ==
    /\ (answer.to = "confirm"
          /\ answer.line \notin {Line(<<"y", NL>>), Line(<<"Y", "E", "S", NL>>)})
         => pc = "aborted"
    /\ pc = "aborted" => ~Accepted
    /\ ~Accepted => (fs = fs0 /\ executed = <<>> /\ ~Mutated /\ last = NoCall)

C7_Witness ==
    /\ pc = "aborted"
    /\ answer.line = ReadError
    /\ \E k \in Items : plan[k].action = "Replace"
    /\ \E k \in Items : plan[k].action = "BackupReplace"

(***************************************************************************)
(* C8.  The confirmation is asked for only in a run without --force in     *)
(* which some item was queued for a decision, and such a run does not      *)
(* execute without it; any other run goes on to execute unasked.           *)
(***************************************************************************)
C8_ConfirmOnlyAfterDecisions ==
    /\ (pc = "confirm" \/ Asked) => (~force /\ pending_indices # <<>>)
    /\ (Mutated /\ ~force /\ pending_indices # <<>>) => Accepted

(***************************************************************************)
(* C9.  Once the resolution loop is over no item of the plan is Pending,   *)
(* so the executor never meets a Pending item.                             *)
(***************************************************************************)
C9_NoPendingAfterResolution ==
    /\ Resolved => \A k \in Items : plan[k].action # "Pending"
    /\ \A j \in 1..Len(events) : events[j].e = "exec" => events[j].action # "Pending"
    /\ pc = "done" => Len(executed) = Len(plan)

C9_Witness ==
    /\ pc = "done"
    /\ Len(pending_indices) > 1
    /\ \E k \in Items : IsPending(k) /\ lkind(fs0, plan[k].to) = "symlink"

(***************************************************************************)
(* C10.  After backup_and_replace has succeeded, the backup path holds     *)
(* what the destination it resolved held before the call - the same        *)
(* content for a file, the same entries with the same contents for a       *)
(* directory, the same target for a symlink - and that destination is a    *)
(* symlink whose target is `from` as given.                                *)
(***************************************************************************)
C10_BackupRoundTrip ==
    (last.op = "backup_and_replace" /\ last.ok) =>
        /\ TreeOf(last.pre, last.dest) # Nothing
        /\ TreeOf(fs, last.backup) = TreeOf(last.pre, last.dest)
        /\ lkind(fs, last.dest) = "symlink"
        /\ read_link(fs, last.dest) = last.from

C10_Witness ==
    /\ last.op = "backup_and_replace" /\ last.ok
    /\ lkind(last.pre, last.dest) = "dir"
    /\ Cardinality(DOMAIN TreeOf(fs, last.backup)) > 1

(***************************************************************************)
(* C11.  A successful backup_and_replace puts the backup in `from` when    *)
(* `from` is a directory at the time of the call, otherwise in the parent  *)
(* of `from` (`from` itself when it has none), under the name of the       *)
(* resolved destination followed by ".bak.dbdm", or under the first        *)
(* numbered variant of that name that no entry of the directory bears.     *)
(***************************************************************************)
BackupDirFor(f, from) ==
    IF Stat(f, from).ok /\ f[Stat(f, from).path].kind = "dir" THEN from
    ELSE IF has_parent(from) THEN parent(from) ELSE from

C11_BackupBesideSourceUnderFreeName ==
    (last.op = "backup_and_replace" /\ last.ok) =>
        LET dir == BackupDirFor(last.pre, last.from)
            base == file_name(last.dest) \o ".bak.dbdm"
        IN  \E k \in 0..MaxCalls :
               /\ last.backup = Variant(dir, base, k)
               /\ lkind(last.pre, last.backup) = "none"
               /\ \A j \in 0..(k - 1) : lkind(last.pre, Variant(dir, base, j)) # "none"

(***************************************************************************)
(* C12.  unique_backup_path(dir, X) returns dir/X.bak.dbdm when no entry   *)
(* bears that name, and otherwise dir/X.bak.dbdm.k for the smallest        *)
(* k >= 1 that no entry bears: every lower candidate names an entry of     *)
(* dir and the path returned names none.                                   *)
(***************************************************************************)
C12_FirstFreeName ==
    last.op = "unique_backup_path" =>
        LET base == Head(last.to.segs) \o ".bak.dbdm"
        IN  \E k \in 0..(MaxTaken + MaxCalls + 1) :
               /\ last.backup = Variant(last.from, base, k)
               /\ lkind(last.pre, last.backup) = "none"
               /\ \A j \in 0..(k - 1) : lkind(last.pre, Variant(last.from, base, j)) # "none"

(***************************************************************************)
(* C13.  An item of the outcome differs from its plan item only when its   *)
(* mutation failed, and then it is Skip with the reason "replace failed"   *)
(* for a Replace item and "backup+replace failed" for a BackupReplace      *)
(* item; the errors hold one entry, destination and error, for each failed *)
(* item, in order, and none for an item whose mutation succeeded, after    *)
(* which the destination is a symlink to the source.                       *)
(***************************************************************************)
FailureReason(action) ==
    IF action = "Replace" THEN "replace failed" ELSE "backup+replace failed"

Failed == { j \in 1..Len(executed) : executed[j] # plan[j] }

C13_FailureDowngradesAndIsRecorded ==
    LET n == Len(executed)
    IN  /\ n <= Len(plan)
        /\ \A j \in Failed :
             /\ plan[j].action \in {"Replace", "BackupReplace"}
             /\ executed[j] = [plan[j] EXCEPT !.action = "Skip",
                                              !.reason = Some(FailureReason(plan[j].action))]
        /\ Len(errors) = Cardinality(Failed)
        /\ \A j \in Failed :
             errors[Cardinality({i \in Failed : i <= j})].to = plan[j].to
        /\ (n >= 1 /\ plan[n].action \in {"Replace", "BackupReplace"}) =>
             /\ last.op = plan[n].action /\ last.to = plan[n].to
             /\ last.ok <=> n \notin Failed
             /\ last.ok => /\ lkind(fs, plan[n].to) = "symlink"
                           /\ read_link(fs, plan[n].to) = plan[n].from
             /\ ~last.ok => errors[Len(errors)] = [to |-> plan[n].to, err |-> last.err]

C13_Witness ==
    /\ pc = "done"
    /\ \E j \in Failed : plan[j].action = "BackupReplace"
    /\ \E j \in 1..Len(executed) : executed[j].action \in {"Replace", "BackupReplace"}

(***************************************************************************)
(* C14.  Once the executor loop is entered the run reaches the Outcome     *)
(* report whatever fails on the way: the items are taken in plan order,    *)
(* one outcome item for each, and after a failed item the next one is      *)
(* still executed.                                                         *)
(***************************************************************************)
Execs == SelectSeq(events, LAMBDA ev : ev.e = "exec")

C14_FailureNeverStopsTheRun ==
    /\ [](/\ \A j \in 1..Len(Execs) : Execs[j].idx = j /\ Execs[j].action = plan[j].action
          /\ Len(executed) = Len(Execs)
          /\ pc = "execute" => cursor = Len(Execs) + 1 /\ cursor <= Len(plan)
          /\ pc = "done" => Len(Execs) = Len(plan)
          /\ Failed # {} => pc \in {"execute", "done"})
    /\ [][pc = "execute" => LoopAdvances]_vars
    /\ (pc = "execute") ~> (pc = "done")

C14_Witness ==
    /\ pc = "done"
    /\ 1 \in Failed
    /\ \E j \in 2..Len(executed) : executed[j].action \in {"Replace", "BackupReplace"}
    /\ \E j \in 2..Len(executed) : j \in Failed

(***************************************************************************)
(* C15.  A Replace or BackupReplace item executed by sync with a directory *)
(* as `from`: when `to` is a regular file the mutation fails and the file  *)
(* system is left as it was; when `to` is a directory or is missing, a     *)
(* mutation that succeeds leaves the symlink to `from` exactly at `to`.    *)
(***************************************************************************)
SyncCall == last.op \in {"Replace", "BackupReplace"}
LibCall == last.op \in {"replace_link", "backup_and_replace"}

C15_DirectorySourceOntoFile ==
    (SyncCall /\ metadata_is_dir(last.pre, last.from)) =>
        /\ lkind(last.pre, last.to) = "file" => (~last.ok /\ fs = last.pre)
        /\ (lkind(last.pre, last.to) \in {"dir", "none"} /\ last.ok) =>
             /\ lkind(fs, last.to) = "symlink"
             /\ read_link(fs, last.to) = last.from

\* the same of replace_link and backup_and_replace of src/lib.rs, which go
\* through resolve_link_destination
LibDirectorySourceOntoFile ==
    (LibCall /\ metadata_is_dir(last.pre, last.from)) =>
        /\ lkind(last.pre, last.to) = "file" =>
             /\ ~last.ok /\ last.err = "InvalidInput"
             /\ fs = last.pre
        /\ lkind(last.pre, last.to) \in {"dir", "none"} =>
             /\ last.dest = last.to
             /\ last.ok => /\ lkind(fs, last.to) = "symlink"
                           /\ read_link(fs, last.to) = last.from
                           /\ \A x \in DOMAIN fs \ DOMAIN last.pre :
                                \/ x = LStat(fs, last.to).path
                                \/ IsPrefix(LStat(fs, last.backup).path, x)
             /\ (last.op = "replace_link" /\ metadata_is_dir(last.pre, parent(last.to)))
                  => last.ok

(***************************************************************************)
(* C16.  A Replace or BackupReplace item executed by sync whose `from` is  *)
(* not a directory: when `to` is a directory the symlink is created in it, *)
(* under the base name of `from`, the directory and its other entries      *)
(* staying in place; in every other case the symlink is created at `to`.   *)
(***************************************************************************)
LinkedAt(f, p, from) == lkind(f, p) = "symlink" /\ read_link(f, p) = from

Inside(to, from) == join_name(to, file_name(from))

C16_FileSourceIntoDirectory ==
    (SyncCall /\ last.ok /\ ~metadata_is_dir(last.pre, last.from)) =>
        IF lkind(last.pre, last.to) = "dir"
        THEN /\ LinkedAt(fs, Inside(last.to, last.from), last.from)
             /\ \A x \in DOMAIN last.pre :
                  (IsPrefix(LStat(last.pre, last.to).path, x)
                     /\ x # LStat(last.pre, Inside(last.to, last.from)).path)
                  => (x \in DOMAIN fs /\ fs[x] = last.pre[x])
        ELSE LinkedAt(fs, last.to, last.from)

\* the same of replace_link and backup_and_replace of src/lib.rs
LibFileSourceIntoDirectory ==
    (LibCall /\ last.ok /\ ~metadata_is_dir(last.pre, last.from)) =>
        IF lkind(last.pre, last.to) = "dir"
        THEN /\ last.dest = Inside(last.to, last.from)
             /\ LinkedAt(fs, last.dest, last.from)
             /\ \A x \in DOMAIN last.pre :
                  (IsPrefix(LStat(last.pre, last.to).path, x)
                     /\ ~IsPrefix(LStat(last.pre, last.to).path \o <<file_name(last.from)>>, x))
                  => (x \in DOMAIN fs /\ fs[x] = last.pre[x])
        ELSE last.dest = last.to /\ LinkedAt(fs, last.to, last.from)
(***************************************************************************)
(* C17.  A Replace or BackupReplace item executed by sync acts on the path *)
(* resolve_link_destination returns for its `from` and `to`: when the      *)
(* resolution fails nothing is changed; otherwise the entry removed or     *)
(* moved aside is the one at that path, the backup is named after it and   *)
(* the symlink is created there.                                           *)
(***************************************************************************)
ResolvedOfLast == resolve_link_destination(last.pre, last.from, last.to)

C17_SyncActsOnResolvedDestination ==
    SyncCall =>
        /\ ~ResolvedOfLast.ok => (~last.ok /\ fs = last.pre)
        /\ (ResolvedOfLast.ok /\ last.ok) =>
             /\ LinkedAt(fs, ResolvedOfLast.dest, last.from)
             /\ last.op = "BackupReplace" =>
                  /\ TreeOf(fs, last.backup) = TreeOf(last.pre, ResolvedOfLast.dest)
                  /\ \E k \in 0..MaxLinks :
                       file_name(last.backup)
                         = file_name(Variant(NoPath, file_name(ResolvedOfLast.dest) \o ".bak.dbdm", k))

(***************************************************************************)
(* C18.  A Replace item whose destination names no entry when it is        *)
(* executed (its directory being there, so that the resolved destination   *)
(* is `to` itself) succeeds: nothing is removed, the symlink to `from` is  *)
(* created and the outcome item is still Replace.                          *)
(***************************************************************************)
C18_ReplaceOfMissingSucceeds ==
    (last.op = "Replace" /\ ResolvedOfLast.ok /\ LStat(last.pre, last.to).free) =>
        /\ last.ok
        /\ LinkedAt(fs, ResolvedOfLast.dest, last.from)
        /\ \A x \in DOMAIN last.pre : x \in DOMAIN fs /\ fs[x] = last.pre[x]
        /\ \E j \in 1..Len(executed) :
             executed[j].to = last.to /\ executed[j].action = "Replace"

\* the same of replace_link of src/lib.rs
LibReplaceOfMissingSucceeds ==
    (last.op = "replace_link" /\ ResolvedOfLast.ok
       /\ LStat(last.pre, ResolvedOfLast.dest).free) =>
        /\ last.ok
        /\ LinkedAt(fs, ResolvedOfLast.dest, last.from)
        /\ \A x \in DOMAIN last.pre : x \in DOMAIN fs /\ fs[x] = last.pre[x]
(***************************************************************************)
(* C19.  A Replace or BackupReplace item executed by sync changes entries  *)
(* only at and beneath its resolved destination and inside its backup      *)
(* directory; every other entry is as it was before, among them the        *)
(* sources and the entry a replaced symlink pointed at.                    *)
(***************************************************************************)
Changed(pre, post, x) ==
    x \notin DOMAIN pre \/ x \notin DOMAIN post \/ pre[x] # post[x]

\* where a path names, or would name, an entry
Place(f, p) == IF LStat(f, p).ok \/ LStat(f, p).free THEN {LStat(f, p).path} ELSE {}

\* the directory a path names; the empty path joined with a name names an
\* entry of the working directory
DirPlace(f, p) ==
    IF p = NoPath THEN {Cwd}
    ELSE IF Stat(f, p).ok THEN {Stat(f, p).path} ELSE {}

Beneath(places, x) == \E q \in places : IsPrefix(q, x)

\* every change from pre to post is at or beneath dest, or is that of an
\* entry inside the backup directory dir
Framed(pre, post, dest, dir) ==
    \A x \in DOMAIN pre \cup DOMAIN post :
        Changed(pre, post, x) =>
            \/ Beneath(Place(pre, dest), x)
            \/ \E b \in dir : IsPrefix(b, x) /\ x # b

C19_OnlyDestinationAndBackupChange ==
    SyncCall =>
        IF ResolvedOfLast.ok
        THEN Framed(last.pre, fs, ResolvedOfLast.dest,
                    IF last.op = "BackupReplace"
                    THEN DirPlace(last.pre, BackupDirFor(last.pre, last.from)) ELSE {})
        ELSE fs = last.pre

\* the same of replace_link and backup_and_replace of src/lib.rs
LibOnlyDestinationAndBackupChange ==
    LibCall =>
        IF ResolvedOfLast.ok
        THEN Framed(last.pre, fs, ResolvedOfLast.dest,
                    IF last.op = "backup_and_replace"
                    THEN DirPlace(last.pre, BackupDirFor(last.pre, last.from)) ELSE {})
        ELSE fs = last.pre
(***************************************************************************)
(* C20.  Each destination is touched by one item of the run only: no two   *)
(* items that are executed as Replace or BackupReplace have the same       *)
(* destination, and what such an item changes is at or beneath its own     *)
(* destination (or in its backup directory), never at or beneath the       *)
(* destination of another link.  As amended this is stated of configs      *)
(* in which no destination is declared twice or beneath another one.       *)
(***************************************************************************)
Mutating(k) == plan[k].action \in {"Replace", "BackupReplace"}

DisjointDestinations ==
    \A i, j \in 1..Len(links) :
        i # j => ~Beneath(Place(fs0, links[i].to), LStat(fs0, links[j].to).path)

TouchedOnce ==
    /\ \A i, j \in 1..Len(Execs) :
         (i # j /\ Mutating(Execs[i].idx) /\ Mutating(Execs[j].idx))
             => plan[Execs[i].idx].to # plan[Execs[j].idx].to
    /\ SyncCall =>
         \A x \in DOMAIN last.pre \cup DOMAIN fs :
             Changed(last.pre, fs, x) =>
                 /\ \/ Beneath(Place(last.pre, last.to), x)
                    \/ /\ last.op = "BackupReplace"
                       /\ Beneath(DirPlace(last.pre, BackupDirFor(last.pre, last.from)), x)
                 /\ \A k \in 1..Len(links) :
                      Beneath(Place(fs0, links[k].to), x) => links[k].to = last.to

SameLinks(items) ==
    \A k \in 1..Len(items) :
        items[k].from = links[k].from /\ items[k].to = links[k].to

C21_OneItemPerLinkInOrder ==
    /\ Len(plan) = (IF pc = "classify" THEN cursor - 1 ELSE Len(links))
    /\ SameLinks(plan)
    /\ \A j \in 1..Len(pending_indices) :
         /\ pending_indices[j] \in 1..Len(plan)
         /\ j > 1 => pending_indices[j - 1] < pending_indices[j]
    /\ Len(executed) <= Len(plan)
    /\ SameLinks(executed)
    /\ pc = "done" => Len(executed) = Len(plan)

C21_Witness ==
    /\ pc = "done"
    /\ Len(links) = 2 /\ links[1] # links[2]
    /\ Len(pending_indices) = 2
    /\ Failed # {}
(***************************************************************************)
(* C22.  The action and reason of an item - plan[k] until the executor has *)
(* taken it, executed[k] from then on - change only in two ways: during    *)
(* resolution from Pending to Replace, BackupReplace or Skip, the reason   *)
(* staying as it was; and in the executor from Replace or BackupReplace to *)
(* Skip with the failure tag as reason.  Hence an item changes at most     *)
(* once in each way, an Ignore or Skip item never changes, and nothing     *)
(* becomes Pending or Ignore after it was classified.                      *)
(***************************************************************************)
Current(k) == IF k <= Len(executed) THEN executed[k] ELSE plan[k]

ResolvedStep(old, new) ==
    /\ pc = "resolve"
    /\ old.action = "Pending"
    /\ new = [old EXCEPT !.action = new.action]
    /\ new.action \in {"Replace", "BackupReplace", "Skip"}

DowngradedStep(old, new) ==
    /\ pc = "execute"
    /\ old.action \in {"Replace", "BackupReplace"}
    /\ new = [old EXCEPT !.action = "Skip", !.reason = Some(FailureReason(old.action))]

C22_ActionTransitions ==
    [][\A k \in 1..Len(plan) :
          \/ Current(k)' = Current(k)
          \/ ResolvedStep(Current(k), Current(k)')
          \/ DowngradedStep(Current(k), Current(k)')]_vars

C22_Witness ==
    /\ pc = "done"
    /\ \E k \in Failed : IsPending(k) /\ plan[k].action = "BackupReplace"
(***************************************************************************)
(* C23.  What print_plan writes for a plan: the title, then the sections   *)
(* in the order ignored, skipped, replaced, backup+replaced, a section     *)
(* being there exactly when some item has its action; under the label of a *)
(* section come the items of that action, each once, in plan order, with   *)
(* their destination and their reason if they have one; a Pending item is  *)
(* in no section.                                                          *)
(***************************************************************************)
Labels == <<"ignored", "skipped", "replaced", "backup+replaced">>
LabelActions == <<"Ignore", "Skip", "Replace", "BackupReplace">>

Heads == { i \in 1..Len(stdout) : stdout[i].kind = "section" }
HeadOf(i) == CHOOSE h \in Heads : h < i /\ \A g \in Heads : g < i => g <= h
Rank(label) == CHOOSE r \in 1..Len(Labels) : Labels[r] = label

\* the lines of the section r and the items of its action, both in order
LinesOf(r) ==
    { i \in 1..Len(stdout) :
        /\ stdout[i].kind = "item"
        /\ \E h \in Heads : h < i
        /\ stdout[HeadOf(i)].label = Labels[r] }
ItemsOf(r) == { k \in 1..Len(plan) : plan[k].action = LabelActions[r] }
Nth(S, n) == CHOOSE x \in S : Cardinality({y \in S : y <= x}) = n

C23_ReportGroupsByAction ==
    pc = "printed" =>
        /\ stdout # <<>> /\ stdout[1].kind = "title"
        /\ stdout[1].label \in {"Planned actions", "Outcome"}
        /\ \A i \in 2..Len(stdout) :
             /\ stdout[i].kind \in {"section", "item"}
             /\ stdout[i].kind = "item" => \E h \in Heads : h < i
        /\ \A h \in Heads : \E r \in 1..Len(Labels) : stdout[h].label = Labels[r]
        /\ \A g, h \in Heads : g < h => Rank(stdout[g].label) < Rank(stdout[h].label)
        /\ \A r \in 1..Len(Labels) :
             /\ (\E h \in Heads : stdout[h].label = Labels[r]) <=> ItemsOf(r) # {}
             /\ Cardinality(LinesOf(r)) = Cardinality(ItemsOf(r))
             /\ \A n \in 1..Cardinality(ItemsOf(r)) :
                  /\ stdout[Nth(LinesOf(r), n)].to = plan[Nth(ItemsOf(r), n)].to
                  /\ stdout[Nth(LinesOf(r), n)].reason = plan[Nth(ItemsOf(r), n)].reason

C23_Witness ==
    /\ pc = "printed"
    /\ \E k \in 1..Len(plan) : plan[k].action = "Pending"
    /\ \E j, k \in 1..Len(plan) :
         /\ j < k /\ plan[j].action = plan[k].action /\ plan[j].action # "Pending"
         /\ plan[j].to # plan[k].to /\ plan[j].reason # plan[k].reason
    /\ Cardinality(Heads) = 1
(***************************************************************************)
(* C24.  resolve_symlink_target(link_path, target) is the target itself    *)
(* when the target is absolute; when it is relative it is the target       *)
(* appended to the parent of link_path, or to "." when link_path has no    *)
(* parent (the root and the empty path have none).                         *)
(***************************************************************************)
C24_TargetResolvedFromParent ==
    pc = "resolved" =>
        LET link_path == last.from
            target == last.to
            base == IF link_path.segs = <<>> THEN Rel(<<".">>)
                    ELSE [abs |-> link_path.abs,
                          segs |-> SubSeq(link_path.segs, 1, Len(link_path.segs) - 1)]
        IN  IF target.abs THEN last.dest = target
            ELSE /\ last.dest.abs = base.abs
                 /\ last.dest.segs = base.segs \o target.segs

C24_Witness ==
    /\ pc = "resolved"
    /\ ~last.to.abs /\ last.to.segs = <<"..", "nvim">>
    /\ last.from = Abs(<<"links", "config">>)
    /\ last.dest = Abs(<<"links", "..", "nvim">>)

C24_WitnessNoParent ==
    /\ pc = "resolved"
    /\ ~last.to.abs /\ last.to.segs # <<>> /\ last.from.segs = <<>>
    /\ last.dest.segs[1] = "."
(***************************************************************************)
(* C25.  read_config returns either one Link for each line of the file, in *)
(* line order, or no link and the error of the first line that fails,      *)
(* which carries the 0-based index of that line.  A line with '=' whose    *)
(* values are not two in number fails with "Invalid number of values" and  *)
(* the number found, whatever its kind; a line with two values whose kind  *)
(* is not "link" fails with "Invalid path syntax".                         *)
(***************************************************************************)
ConfText == last.pre[ConfPath.segs].content
LineOk(k) == parse_line(last.pre, ConfText[k], k - 1).ok
FirstFailing == CHOOSE k \in 1..Len(ConfText) : ~LineOk(k) /\ \A j \in 1..(k - 1) : LineOk(j)

\* the values of a line: what stands, between whitespace, after its first '='
HasEq(line) == \E k \in 1..Len(line) : line[k].t = "eq"
AfterEq(line) ==
    LET at == CHOOSE k \in 1..Len(line) : line[k].t = "eq" /\ \A j \in 1..(k - 1) : line[j].t # "eq"
    IN  SubSeq(line, at + 1, Len(line))
BeforeEq(line) ==
    LET at == CHOOSE k \in 1..Len(line) : line[k].t = "eq" /\ \A j \in 1..(k - 1) : line[j].t # "eq"
    IN  SubSeq(line, 1, at - 1)
ValueCount(line) ==
    Cardinality({ k \in 1..Len(AfterEq(line)) :
                    /\ AfterEq(line)[k].t # "ws"
                    /\ k = 1 \/ AfterEq(line)[k - 1].t = "ws" })
KindIsLink(line) ==
    SelectSeq(BeforeEq(line), LAMBDA tok : tok.t # "ws") = <<W(<<"link">>)>>

C25_ReadConfigAllOrNothing ==
    last.op = "read_config" =>
        IF \A k \in 1..Len(ConfText) : LineOk(k)
        THEN /\ last.ok /\ pc = "parsed"
             /\ Len(links) = Len(ConfText)
             /\ \A k \in 1..Len(ConfText) :
                  links[k] = parse_line(last.pre, ConfText[k], k - 1).link
        ELSE LET line == ConfText[FirstFailing]
             IN  /\ ~last.ok /\ pc = "config error"
                 /\ links = <<>>
                 /\ last.err = parse_line(last.pre, line, FirstFailing - 1).err
                 /\ last.err.line = Some(FirstFailing - 1)
                 /\ (HasEq(line) /\ ValueCount(line) # 2) =>
                      /\ last.err.msg = "Invalid number of values"
                      /\ last.err.found = Some(ValueCount(line))
                 /\ (HasEq(line) /\ ValueCount(line) = 2 /\ ~KindIsLink(line)) =>
                      last.err.msg = "Invalid path syntax"

\* the same, the index being asked only of the messages that have one
Indexed == last.err.msg \notin {"Parent directory does not exist", "Path has no parent"}

ReadConfigAllOrNothingInOrder ==
    last.op = "read_config" =>
        IF \A k \in 1..Len(ConfText) : LineOk(k)
        THEN /\ last.ok /\ pc = "parsed"
             /\ Len(links) = Len(ConfText)
             /\ \A k \in 1..Len(ConfText) :
                  links[k] = parse_line(last.pre, ConfText[k], k - 1).link
        ELSE LET line == ConfText[FirstFailing]
             IN  /\ ~last.ok /\ pc = "config error"
                 /\ links = <<>>
                 /\ last.err = parse_line(last.pre, line, FirstFailing - 1).err
                 /\ Indexed => last.err.line = Some(FirstFailing - 1)
                 /\ (HasEq(line) /\ ValueCount(line) # 2) =>
                      /\ last.err.msg = "Invalid number of values"
                      /\ last.err.found = Some(ValueCount(line))
                 /\ (HasEq(line) /\ ValueCount(line) = 2 /\ ~KindIsLink(line)) =>
                      last.err.msg = "Invalid path syntax"
(***************************************************************************)
(* C26.  When the executor takes an item whose action is Ignore or Skip it *)
(* changes nothing in the file system, records no error and no call, and   *)
(* appends the item to the outcome as it is: same from, to, action and     *)
(* reason.                                                                 *)
(***************************************************************************)
C26_IgnoreAndSkipPassThrough ==
    [][(pc = "execute" /\ plan[cursor].action \in {"Ignore", "Skip"}) =>
          /\ fs' = fs
          /\ errors' = errors /\ last' = last
          /\ executed' = Append(executed, plan[cursor])]_vars

C26_Witness ==
    /\ pc = "done"
    /\ Len(plan) = 2 /\ fs # fs0
    /\ plan[2].action = "Skip" /\ plan[2].reason = None
    /\ executed[2] = plan[2]
    /\ TreeOf(fs, plan[2].to) = TreeOf(fs0, plan[2].to)
(***************************************************************************)
(* C27.  The phases of a run follow one another: nothing is asked while    *)
(* links are still being classified; the choices are asked for the pending *)
(* items in plan order, one choice for each; the confirmation is asked     *)
(* once, after the last choice; the file system is as before the run until *)
(* the confirmation is given; the items are then executed in plan order,   *)
(* and a step changes the file system only by executing the one item the   *)
(* executor is at.                                                         *)
(***************************************************************************)
PhaseRank(ev) == IF ev.e = "choice" THEN 1 ELSE IF ev.e = "confirm" THEN 2 ELSE 3
ChoiceEvents == SelectSeq(events, LAMBDA ev : ev.e = "choice")

PhasesInOrder ==
    /\ pc = "classify" => events = <<>>
    /\ events # <<>> => Len(plan) = Len(links)
    /\ \A i, j \in 1..Len(events) : i < j => PhaseRank(events[i]) <= PhaseRank(events[j])
    /\ Cardinality({ j \in 1..Len(events) : events[j].e = "confirm" }) <= 1
    /\ Len(ChoiceEvents) <= Len(pending_indices)
    /\ \A j \in 1..Len(ChoiceEvents) : ChoiceEvents[j].idx = pending_indices[j]
    /\ Asked => Len(ChoiceEvents) = Len(pending_indices)
    /\ ~Accepted => (fs = fs0 /\ Execs = <<>>)
    /\ \A j \in 1..Len(Execs) : Execs[j].idx = j

OneItemAtATime ==
    fs' # fs =>
        /\ pc = "execute" /\ Accepted
        /\ events' = Append(events, [e |-> "exec", idx |-> cursor,
                                     action |-> plan[cursor].action])
        /\ last'.to = plan[cursor].to /\ last'.pre = fs

C27_PhasesStrictlyOrdered == [](PhasesInOrder) /\ [][OneItemAtATime]_vars

C27_Witness ==
    /\ pc = "done"
    /\ Len(ChoiceEvents) = 2 /\ Len(Execs) = 2
    /\ \A k \in 1..2 : plan[k].action \in {"Replace", "BackupReplace"} /\ executed[k] = plan[k]
    /\ DisjointDestinations
(***************************************************************************)
(* C28.  A turn of the choice prompt: a line that is one of the words r,   *)
(* replace, b, backup, s, skip, in any case and with any whitespace around *)
(* it, is taken as Replace, BackupReplace or Skip respectively and the     *)
(* action is given to the pending item; any other line, and a line that    *)
(* cannot be read, is taken as nothing: the plan stays as it is and the    *)
(* prompt is asked again for the same item.                                *)
(***************************************************************************)
SameLetter(c, l) == c = l \/ \E k \in 1..Len(Upper) : Upper[k] = c /\ Lower[k] = l

\* the line is the word, in any case, between whitespace
Spells(line, word) ==
    /\ ~line.err
    /\ \E i \in 1..(Len(line.text) + 1) :
         /\ i + Len(word) - 1 <= Len(line.text)
         /\ \A k \in 1..Len(line.text) :
              IF k < i \/ k > i + Len(word) - 1
              THEN line.text[k] \in Whitespace
              ELSE SameLetter(line.text[k], word[k - i + 1])

ChoiceWords ==
    { [word |-> <<"r">>, action |-> "Replace"],
      [word |-> <<"r", "e", "p", "l", "a", "c", "e">>, action |-> "Replace"],
      [word |-> <<"b">>, action |-> "BackupReplace"],
      [word |-> <<"b", "a", "c", "k", "u", "p">>, action |-> "BackupReplace"],
      [word |-> <<"s">>, action |-> "Skip"],
      [word |-> <<"s", "k", "i", "p">>, action |-> "Skip"] }

C28_PromptAcceptsOnlyTheChoices ==
    [][pc = "resolve" =>
          /\ answer'.to = "choice"
          /\ \A w \in ChoiceWords :
               Spells(answer'.line, w.word) =>
                   /\ answer'.as = w.action
                   /\ plan' = [plan EXCEPT ![pending_indices[cursor]].action = w.action]
          /\ (\A w \in ChoiceWords : ~Spells(answer'.line, w.word)) =>
               /\ answer'.as = ""
               /\ plan' = plan /\ events' = events
               /\ pc' = "resolve" /\ cursor' = cursor /\ pending_indices' = pending_indices]_vars

C28_Witness ==
    /\ answer.to = "choice" /\ answer.as = "BackupReplace"
    /\ answer.line = Line(<<"\t", " ", "B", "A", "C", "K", "U", "P", "\r", NL>>)
    /\ plan[1].action = "BackupReplace"

C28_WitnessRejected ==
    /\ answer.to = "choice" /\ answer.as = ""
    /\ answer.line = Line(<<" ", "r", " ", "s", NL>>)
    /\ pc = "resolve" /\ plan[1].action = "Pending"
(***************************************************************************)
(* C29.  A backup-and-replace leaves every entry that was in the backup    *)
(* directory before the call - file, directory or symlink, dangling or     *)
(* not, an earlier backup among them - where it was and as it was: it is   *)
(* neither overwritten, nor removed, nor renamed.                          *)
(***************************************************************************)
BackupCall == last.op \in {"BackupReplace", "backup_and_replace"}

\* the entries in the backup directory of the call, the destination apart
InBackupDir(x) ==
    /\ \E b \in DirPlace(last.pre, BackupDirFor(last.pre, last.from)) :
         IsPrefix(b, x) /\ x # b
    /\ ~Beneath(Place(last.pre, last.to), x)

C29_BackupDirectoryEntriesKept ==
    BackupCall =>
        \A x \in DOMAIN last.pre :
            InBackupDir(x) => (x \in DOMAIN fs /\ fs[x] = last.pre[x])
(***************************************************************************)
(* C30.  An item that is in the outcome as Skip - classified so, skipped   *)
(* by the user's choice, or downgraded after its Replace or BackupReplace  *)
(* failed - has at its destination what was there before the run: the     *)
(* same entry with the same content, or nothing as before.  As amended     *)
(* this is stated of the items no other item disturbs: no other item that  *)
(* is executed as Replace or BackupReplace has its destination at, above   *)
(* or beneath this one, or puts its backup beneath it.                     *)
(***************************************************************************)
Overlap(p, q) ==
    \/ Beneath(Place(fs0, p), LStat(fs0, q).path)
    \/ Beneath(Place(fs0, q), LStat(fs0, p).path)

Disturbs(j, k) ==
    /\ j # k /\ Mutating(j)
    /\ \/ Overlap(plan[j].to, plan[k].to)
       \/ /\ plan[j].action = "BackupReplace"
          /\ \E b \in DirPlace(fs0, BackupDirFor(fs0, plan[j].from)) :
               Beneath(Place(fs0, plan[k].to), b)

AsBefore(k) == TreeOf(fs, plan[k].to) = TreeOf(fs0, plan[k].to)

Achieved(k) == executed[k].action \in {"Ignore", "Replace", "BackupReplace"}
ResolvedOf(k) == resolve_link_destination(fs0, plan[k].from, plan[k].to)

C31_AchievedItemsAreLinked ==
    (pc = "done" /\ Accepted) =>
        \A k \in 1..Len(executed) :
            Achieved(k) =>
                /\ ResolvedOf(k).ok
                /\ CorrectlyLinked(fs, plan[k].from, ResolvedOf(k).dest)

\* the same of `to` itself, for absolute sources and undisturbed items
LinkedAtDeclaredDestination ==
    (pc = "done" /\ Accepted) =>
        \A k \in 1..Len(executed) :
            (Achieved(k) /\ plan[k].from.abs /\ \A j \in 1..Len(executed) : ~Disturbs(j, k))
                => CorrectlyLinked(fs, plan[k].from, plan[k].to)
(***************************************************************************)
(* C32.  When a run is done and every item is in the outcome as Ignore,    *)
(* Replace or BackupReplace, a second run over the same links classifies   *)
(* every item as Ignore (and then has nothing to mutate, classification    *)
(* leaving the file system as it is).                                      *)
(***************************************************************************)
AllAchieved ==
    /\ pc = "done" /\ Accepted
    /\ Len(executed) = Len(links)
    /\ \A k \in 1..Len(executed) : Achieved(k)

C32_SecondRunIgnoresAll ==
    AllAchieved =>
        \A k \in 1..Len(links) :
            /\ classify(fs, links[k], force).item.action = "Ignore"
            /\ ~classify(fs, links[k], force).pending

\* the same for absolute sources and destinations that do not disturb one another
SecondRunIgnoresAbsoluteDisjoint ==
    (AllAchieved /\ DisjointDestinations /\ \A k \in 1..Len(links) : links[k].from.abs) =>
        \A k \in 1..Len(links) : classify(fs, links[k], force).item.action = "Ignore"
(***************************************************************************)
(* C33.  The check command reports a link as matching exactly when the     *)
(* classification of sync gives it the action Ignore, on the same file     *)
(* system.                                                                 *)
(***************************************************************************)
C33_CheckAgreesWithClassification ==
    \A k \in 1..Len(stdout) :
        stdout[k].kind = "check" =>
            (stdout[k].label = "green"
                <=> classify(fs, links[k], force).item.action = "Ignore")

\* the same where the destination is not a symlink with a relative target
CheckAgreesOnAbsoluteTargets ==
    \A k \in 1..Len(stdout) :
        (/\ stdout[k].kind = "check"
         /\ ~(lkind(fs, links[k].to) = "symlink" /\ is_relative(read_link(fs, links[k].to))))
            => (stdout[k].label = "green"
                    <=> classify(fs, links[k], force).item.action = "Ignore")
(***************************************************************************)
(* C34.  A run whose input has ended comes to an end: once a read has met  *)
(* the end of the input, at a choice or at the confirmation, the run goes  *)
(* on to "Aborted." or to the Outcome report.                              *)
(***************************************************************************)
Terminated == pc \in {"aborted", "done"}

C34_RunEndsWhenInputEnds == stdin_eof ~> Terminated

\* the same from the confirmation on, whatever is read there
RunEndsOnceChoicesAreMade == (pc \in {"confirm", "execute"}) ~> Terminated
====
